---------------------------- MODULE Spec2Model ----------------------------
(***************************************************************************)
(* A model of vt100.py (class Terminal): the byte-level sequence parser,   *)
(* the C0 / escape / control-sequence handlers, the screen buffer with its *)
(* cursor, tab stops and scroll-back history, and the attribute context.   *)
(*                                                                         *)
(* Input units are integers 0..127 (the code turns an int into chr(c)).    *)
(* A string of the code is a sequence of such integers.  The terminal is   *)
(* carried as a record  t  whose fields are the attributes of the Terminal *)
(* object; every handler of the code is an operator from terminal to       *)
(* terminal.  A Python exception that escapes parse_single is recorded in  *)
(* the field  raised  ("none" when the call returned normally); the state  *)
(* the object is left in is the state at the point the exception was       *)
(* raised.                                                                 *)
(***************************************************************************)
EXTENDS Integers, Sequences, FiniteSets, TLC

VARIABLES
    state,        \* Terminal.state
    prev_state,   \* Terminal.prev_state
    next_state,   \* Terminal.next_state
    collected,    \* Terminal.collected
    row,          \* Terminal.row
    col,          \* Terminal.col
    screen,       \* Terminal.screen  (height x width array of cells)
    history,      \* Terminal.history (list of rows, oldest first)
    previous,     \* Terminal.previous
    current,      \* Terminal.current
    tabstops,     \* Terminal.tabstops
    attr,         \* Terminal.attr
    height,       \* Terminal.height
    width,        \* Terminal.width
    raised,       \* exception that escaped the latest parse_single, or "none"
    unit,         \* the unit handed to the latest parse_single (environment)
    input,        \* transcript of a ground or sequence session: every unit so far (environment)
    pending,      \* rest of the string the caller is feeding (environment)
    budget,       \* strings the caller may still start (environment)
    catalogue,    \* which set of strings the caller draws from (environment)
    request,      \* arguments of the caller's to_string call (environment)
    rendered      \* what that to_string call returned (environment)

tvars == <<state, prev_state, next_state, collected, row, col, screen, history,
           previous, current, tabstops, attr, height, width, raised>>
vars == <<state, prev_state, next_state, collected, row, col, screen, history,
          previous, current, tabstops, attr, height, width, raised,
          unit, input, pending, budget, catalogue, request, rendered>>

---------------------------------------------------------------------------
(* Bounds of the model.                                                    *)

MaxHeight == 3
MaxWidth == 3
MaxWords == 2
MaxGround == 5
MaxSGRWords == 3
MaxSplitWords == 2
MaxTabWidth == 18
MaxTabWords == 2
MaxSeqBytes == 6
MaxRenderWords == 4
MaxCountWords == 2
MaxRepeatWords == 3

(* Program constants.                                                      *)

DefaultHeight == 24
DefaultWidth == 80
TabInterval == 8

---------------------------------------------------------------------------
(* Bytes.                                                                  *)

Byte == 0..127

BEL_ == 7
BS_ == 8
HT_ == 9
LF_ == 10
CR_ == 13
CAN_ == 24
SUB_ == 26
ESC_ == 27

Min(a, b) == IF a < b THEN a ELSE b
Max(a, b) == IF a > b THEN a ELSE b

---------------------------------------------------------------------------
(* Cells and attribute maps.                                               *)

\* An empty (never written or erased) cell: None in the numpy array.
None == <<>>

\* Character(char, attr).  An attribute map (a dict) is the set of its
\* <<key, value>> items; a key occurs at most once.
Character(c, a) == [char |-> c, attr |-> a]

\* dict.__setitem__ / del dict[key] (a missing key is ignored by clear_attr).
set_attr(a, key, value) == {p \in a : p[1] # key} \cup {<<key, value>>}
clear_attr(a, key) == {p \in a : p[1] # key}

BlankRow(w) == [j \in 0..(w - 1) |-> None]

---------------------------------------------------------------------------
(* Parameter / utility layer.                                              *)

IsDigit(b) == b >= 48 /\ b <= 57

\* int(token) for a non-empty token drawn from the parameter bytes 0x30-0x3f:
\* defined exactly when every byte is a decimal digit (else ValueError).
RECURSIVE IntOf(_)
IntOf(token) ==
    IF token = <<>> THEN 0
    ELSE IntOf(SubSeq(token, 1, Len(token) - 1)) * 10 + (token[Len(token)] - 48)

IsInt(token) == token # <<>> /\ \A i \in 1..Len(token) : IsDigit(token[i])

\* str(n) for n >= 0.
RECURSIVE StrOf(_)
StrOf(n) == IF n < 10 THEN <<48 + n>> ELSE Append(StrOf(n \div 10), 48 + (n % 10))

\* s.split(';')
RECURSIVE Split(_)
Split(s) ==
    IF \A i \in 1..Len(s) : s[i] # 59 THEN <<s>>
    ELSE LET k == CHOOSE i \in 1..Len(s) :
                      s[i] = 59 /\ \A j \in 1..(i - 1) : s[j] # 59
         IN <<SubSeq(s, 1, k - 1)>> \o Split(SubSeq(s, k + 1, Len(s)))

\* The inner function f of param_list; a token that int() rejects raises.
ParamToken(token, default, zero_is_default) ==
    IF token = <<>> THEN default
    ELSE LET value == IntOf(token)
         IN IF zero_is_default /\ value = 0 THEN default ELSE value

RECURSIVE Pad(_, _, _)
Pad(l, default, min_length) ==
    IF Len(l) >= min_length THEN l ELSE Pad(Append(l, default), default, min_length)

\* Variant of param_list: a token that int() rejects is taken as the default
\* instead of raising.
param_list_lenient(s, default, zero_is_default, min_length) ==
    [ok |-> TRUE,
     l |-> Pad([i \in 1..Len(Split(s)) |->
                   IF Split(s)[i] # <<>> /\ ~IsInt(Split(s)[i]) THEN default
                   ELSE ParamToken(Split(s)[i], default, zero_is_default)],
               default, min_length)]

\* Variant of param_list: a zero parameter is kept (zero_is_default is
\* ignored).
param_list_keeps_zero(s, default, zero_is_default, min_length) ==
    IF \E i \in 1..Len(Split(s)) : Split(s)[i] # <<>> /\ ~IsInt(Split(s)[i])
    THEN [ok |-> FALSE, l |-> <<>>]
    ELSE [ok |-> TRUE,
          l |-> Pad([i \in 1..Len(Split(s)) |->
                        ParamToken(Split(s)[i], default, FALSE)],
                    default, min_length)]

\* param_list(s, default, zero_is_default, min_length): [ok, l]; ok = FALSE
\* is InvalidParameterListError.  (s is never None on the paths modelled.)
param_list(s, default, zero_is_default, min_length) ==
    LET tokens == Split(s)
    IN IF \E i \in 1..Len(tokens) : tokens[i] # <<>> /\ ~IsInt(tokens[i])
       THEN [ok |-> FALSE, l |-> <<>>]
       ELSE [ok |-> TRUE,
             l |-> Pad([i \in 1..Len(tokens) |->
                           ParamToken(tokens[i], default, zero_is_default)],
                       default, min_length)]

\* Variant of clip: the upper test is n > stop.
clip_inclusive(n, stop) ==
    IF n < 0 THEN 0
    ELSE IF n > stop THEN stop - 1
    ELSE n

\* clip(n, stop): every call of the code uses the two-argument form, so
\* start = 0.
clip(n, stop) ==
    IF n < 0 THEN 0
    ELSE IF n >= stop THEN stop - 1
    ELSE n

---------------------------------------------------------------------------
(* numpy slices.  A slice bound i on an axis of length n: a negative bound *)
(* counts from the end, and the result is cut to 0..n.                     *)

NormIdx(i, n) == IF i < 0 THEN Max(i + n, 0) ELSE Min(i, n)

\* a[d0:d1] = a[s0:s1] on an axis of length n (rows of the screen, or the
\* cells of one row).  The value is copied as a whole (no aliasing of source
\* and destination).  Shapes must agree or the source have length 1
\* (broadcast); otherwise numpy raises ValueError: ok = FALSE.
AssignSlice(a, n, d0, d1, s0, s1) ==
    LET dl == NormIdx(d0, n)
        dh == NormIdx(d1, n)
        sl == NormIdx(s0, n)
        sh == NormIdx(s1, n)
        ld == Max(dh - dl, 0)
        ls == Max(sh - sl, 0)
    IN IF ls = ld
       THEN [ok |-> TRUE,
             a |-> [i \in 0..(n - 1) |->
                      IF i >= dl /\ i < dh THEN a[sl + (i - dl)] ELSE a[i]]]
       ELSE IF ls = 1
       THEN [ok |-> TRUE,
             a |-> [i \in 0..(n - 1) |->
                      IF i >= dl /\ i < dh THEN a[sl] ELSE a[i]]]
       ELSE [ok |-> FALSE, a |-> a]

\* a[d0:d1] = v on an axis of length n.
FillSlice(a, n, d0, d1, v) ==
    LET dl == NormIdx(d0, n)
        dh == NormIdx(d1, n)
    IN [i \in 0..(n - 1) |-> IF i >= dl /\ i < dh THEN v ELSE a[i]]

\* Variant of SliceSeq: the rows are listed from the last to the first.
SliceSeq_reversed(a, n, d0, d1) ==
    [k \in 1..Max(NormIdx(d1, n) - NormIdx(d0, n), 0) |-> a[NormIdx(d1, n) - k]]

\* list(a[d0:d1]) on an axis of length n.
SliceSeq(a, n, d0, d1) ==
    LET dl == NormIdx(d0, n)
        dh == NormIdx(d1, n)
    IN [k \in 1..Max(dh - dl, 0) |-> a[dl + k - 1]]

---------------------------------------------------------------------------
(* Terminal: constructor and utilities.                                    *)

\* Terminal.__init__(height, width)
NewTerminal(h, w) ==
    [state |-> "ground", prev_state |-> "None", next_state |-> "None",
     history |-> <<>>, width |-> w, height |-> h,
     screen |-> [i \in 0..(h - 1) |-> BlankRow(w)],
     row |-> 0, col |-> 0, previous |-> 0, current |-> 0,
     tabstops |-> [i \in 0..(w - 1) |-> (i % TabInterval) = 0],
     attr |-> {}, collected |-> <<>>, raised |-> "none"]

\* Terminal.clear
clear(t) == [t EXCEPT !.collected = <<>>]

\* Terminal.collect
collect(t, c) == [t EXCEPT !.collected = Append(t.collected, c)]

\* Terminal.scroll(n, top, bottom); the callers' defaults top = 0 and
\* bottom = height are passed explicitly.
scroll(t, n, top, bottom) ==
    LET s == t.screen
        H == t.height
        hloc == bottom - top
    IN IF n > 0
       THEN LET h1 == IF top = 0
                      THEN t.history \o SliceSeq(s, H, 0, n)
                      ELSE t.history
                over == n > hloc
                extra == n - H
                h2 == IF over
                      THEN h1 \o [k \in 1..Max(extra, 0) |-> BlankRow(t.width)]
                      ELSE h1
                n2 == IF over THEN H ELSE n
                mv == AssignSlice(s, H, top, bottom - n2, top + n2, bottom)
            IN IF ~mv.ok
               THEN [t EXCEPT !.history = h2, !.raised = "ValueError"]
               ELSE [t EXCEPT !.history = h2,
                              !.screen = FillSlice(mv.a, H, bottom - n2, bottom,
                                                   BlankRow(t.width))]
       ELSE IF n < 0
       THEN LET n1 == Min(-n, H)
                mv == AssignSlice(s, H, top + n1, bottom, top, bottom - n1)
            IN IF ~mv.ok
               THEN [t EXCEPT !.raised = "ValueError"]
               ELSE [t EXCEPT !.screen = FillSlice(mv.a, H, top, top + n1,
                                                   BlankRow(t.width))]
       ELSE t

\* IND whose scroll keeps only the row that just left the screen.
IND_forgets(t) ==
    IF t.row < t.height - 1
    THEN [t EXCEPT !.row = t.row + 1]
    ELSE [scroll(t, 1, 0, t.height) EXCEPT !.history = <<t.screen[0]>>]

\* Variant of IND: on the bottom row the screen scrolls by two rows.
IND_scrolls_two(t) ==
    IF t.row < t.height - 1
    THEN [t EXCEPT !.row = t.row + 1]
    ELSE scroll(t, 2, 0, t.height)

\* @escape('D') IND
IND(t) ==
    IF t.row < t.height - 1
    THEN [t EXCEPT !.row = t.row + 1]
    ELSE scroll(t, 1, 0, t.height)

\* Variant of NEL: the column is kept.
NEL_keeps_column(t) == IND(t)

\* @escape('E') NEL
NEL(t) == [IND(t) EXCEPT !.col = 0]

\* Variant of output: the column is advanced before the cell is written.
output_advance_first(t, c) ==
    [t EXCEPT !.screen[t.row][t.col + 1] = Character(c, t.attr),
              !.col = t.col + 1]

\* Terminal.output
output(t, c) ==
    LET t1 == IF t.col >= t.width THEN NEL(t) ELSE t
    IN [t1 EXCEPT !.screen[t1.row][t1.col] = Character(c, t1.attr),
                  !.col = t1.col + 1]

---------------------------------------------------------------------------
(* Single-character commands (C0).                                         *)

\* Terminal.commands: the table built by the @command decorators.
commands(c) ==
    CASE c = 0 -> "NUL" [] c = 1 -> "SOH" [] c = 2 -> "STX" [] c = 3 -> "ETX"
      [] c = 4 -> "EOT" [] c = 5 -> "ENQ" [] c = 6 -> "ACK" [] c = 7 -> "BEL"
      [] c = 8 -> "BS" [] c = 9 -> "HT" [] c = 10 -> "LF" [] c = 11 -> "VT"
      [] c = 12 -> "FF" [] c = 13 -> "CR" [] c = 14 -> "SO" [] c = 15 -> "SI"
      [] c = 16 -> "DLE" [] c = 17 -> "DC1" [] c = 18 -> "DC2" [] c = 19 -> "DC3"
      [] c = 20 -> "DC4" [] c = 21 -> "NAK" [] c = 22 -> "SYN" [] c = 23 -> "ETB"
      [] c = 24 -> "CAN" [] c = 25 -> "EM" [] c = 26 -> "SUB" [] c = 27 -> "ESC"
      [] c = 28 -> "FS" [] c = 29 -> "GS" [] c = 30 -> "RS" [] c = 31 -> "US"
      [] OTHER -> "None"

\* Variant of a NotImplemented handler: it resets the cursor and the
\* attributes.
Unimplemented_resets(t) == [t EXCEPT !.row = 0, !.col = 0, !.attr = {}]

\* Terminal.ignore: a debug message only.
ignore(t) == t

\* A handler whose body is "return NotImplemented": the caller prints a
\* debug message only.
Unimplemented(t) == t

BS(t) == [t EXCEPT !.col = t.col - (IF t.col > 0 THEN 1 ELSE 0)]

\* Variant of HT: the next multiple of 8, clamped to the last column, also
\* from the pending-wrap column.
HT_clamps(t) ==
    [t EXCEPT !.col = Min(TabInterval * ((t.col \div TabInterval) + 1), t.width - 1)]

RECURSIVE HT(_)
HT(t) ==
    IF t.col < t.width - 1
    THEN LET t1 == [t EXCEPT !.col = t.col + 1]
         IN IF t1.tabstops[t1.col] THEN t1 ELSE HT(t1)
    ELSE t

\* Variant of LF: new line (index and carriage return).
LF_new_line(t) == NEL(t)

LF(t) == IND(t)
VT(t) == LF(t)
FF(t) == LF(t)
CR(t) == [t EXCEPT !.col = 0]
\* Variant of CAN: the sequence in progress goes on.
CAN_continues(t) == t

CAN(t) == [t EXCEPT !.next_state = "ground"]
SUB(t) == [t EXCEPT !.next_state = "ground"]
ESC(t) == [t EXCEPT !.next_state = "escape"]

\* BEL: pass
BEL(t) == t

\* Terminal.execute
execute(t, c) ==
    LET name == commands(c)
    IN CASE name = "None" -> ignore(t)
         [] name = "BEL" -> BEL(t)
         [] name = "BS" -> BS(t)
         [] name = "HT" -> HT(t)
         [] name = "LF" -> LF(t)
         [] name = "VT" -> VT(t)
         [] name = "FF" -> FF(t)
         [] name = "CR" -> CR(t)
         [] name = "CAN" -> CAN(t)
         [] name = "SUB" -> SUB(t)
         [] name = "ESC" -> ESC(t)
         [] OTHER -> Unimplemented(t)

---------------------------------------------------------------------------
(* Escape sequences.                                                       *)

\* Terminal.escape_sequences: the table built by the @escape decorators,
\* keyed by the decorator's string.
escape_sequences(key) ==
    CASE key = <<68>> -> "IND" [] key = <<69>> -> "NEL" [] key = <<72>> -> "HTS"
      [] key = <<77>> -> "RI" [] key = <<80>> -> "DCS" [] key = <<88>> -> "SOS"
      [] key = <<91>> -> "CSI" [] key = <<92>> -> "ST" [] key = <<93>> -> "OSC"
      [] key = <<94>> -> "PM" [] key = <<95>> -> "APC"
      [] key = <<55>> -> "DECSC" [] key = <<56>> -> "DECRC"
      [] key = <<61>> -> "DECPAM" [] key = <<62>> -> "DECPNM"
      [] key = <<78>> -> "SS2" [] key = <<79>> -> "SS3"
      [] key = <<32, 70>> -> "S7C1T" [] key = <<32, 71>> -> "S8C1T"
      [] key = <<32, 76>> -> "set_ansi_level_1"
      [] key = <<32, 77>> -> "set_ansi_level_2"
      [] key = <<32, 78>> -> "set_ansi_level_3"
      [] key = <<66>> -> "BPH" [] key = <<67>> -> "NBH" [] key = <<70>> -> "SSA"
      [] key = <<71>> -> "ESA" [] key = <<73>> -> "HTJ" [] key = <<74>> -> "VTS"
      [] key = <<75>> -> "PLD" [] key = <<76>> -> "PLU" [] key = <<81>> -> "PU1"
      [] key = <<82>> -> "PU2" [] key = <<83>> -> "STS" [] key = <<84>> -> "CCH"
      [] key = <<85>> -> "MW" [] key = <<86>> -> "SPA" [] key = <<87>> -> "EPA"
      [] key = <<90>> -> "SCI" [] key = <<97>> -> "INT" [] key = <<98>> -> "EMI"
      [] key = <<99>> -> "RIS" [] key = <<100>> -> "CMD"
      [] OTHER -> "None"

\* @escape('H') HTS: a list index outside 0..width-1 raises IndexError.
HTS(t) ==
    IF t.col \in DOMAIN t.tabstops
    THEN [t EXCEPT !.tabstops[t.col] = TRUE]
    ELSE [t EXCEPT !.raised = "IndexError"]

\* RI whose downward scroll records the row pushed past the bottom.
RI_records(t) ==
    IF t.row > 0
    THEN [t EXCEPT !.row = t.row - 1]
    ELSE [scroll(t, -1, 0, t.height)
            EXCEPT !.history = Append(t.history, t.screen[t.height - 1])]

\* @escape('M') RI
RI(t) ==
    IF t.row > 0
    THEN [t EXCEPT !.row = t.row - 1]
    ELSE scroll(t, -1, 0, t.height)

DCS(t) == [t EXCEPT !.next_state = "dcs"]
SOS(t) == [t EXCEPT !.next_state = "sos"]
CSI(t) == [t EXCEPT !.next_state = "control_sequence"]
ST(t) == t
OSC(t) == [t EXCEPT !.next_state = "osc"]
PM(t) == [t EXCEPT !.next_state = "pm"]
APC(t) == [t EXCEPT !.next_state = "apc"]

\* Terminal.dispatch_escape: the table is looked up with the final byte c
\* alone (not with command = collected + c).
dispatch_escape(t, c) ==
    LET name == escape_sequences(<<c>>)
    IN CASE name = "None" -> ignore(t)
         [] name = "IND" -> IND(t)
         [] name = "NEL" -> NEL(t)
         [] name = "HTS" -> HTS(t)
         [] name = "RI" -> RI(t)
         [] name = "DCS" -> DCS(t)
         [] name = "SOS" -> SOS(t)
         [] name = "CSI" -> CSI(t)
         [] name = "ST" -> ST(t)
         [] name = "OSC" -> OSC(t)
         [] name = "PM" -> PM(t)
         [] name = "APC" -> APC(t)
         [] OTHER -> Unimplemented(t)

\* Terminal.parse_escape
parse_escape(t, c) ==
    IF c < 32 THEN execute(t, c)
    ELSE IF c < 48 THEN collect(t, c)
    ELSE IF c < 127 THEN dispatch_escape([t EXCEPT !.next_state = "ground"], c)
    ELSE ignore(t)

---------------------------------------------------------------------------
(* Control sequences: the handlers.  A handler whose parameter list is     *)
(* rejected raises InvalidParameterListError, which dispatch catches.      *)

Invalid(t) == [t EXCEPT !.raised = "InvalidParameterListError"]

\* Terminal.control_sequences: the table built by the @control decorators.
control_sequences(command) ==
    CASE command = <<64>> -> "ICH" [] command = <<65>> -> "CUU"
      [] command = <<66>> -> "CUD" [] command = <<67>> -> "CUF"
      [] command = <<68>> -> "CUB" [] command = <<69>> -> "CNL"
      [] command = <<70>> -> "CPL" [] command = <<71>> -> "CHA"
      [] command = <<72>> -> "CUP" [] command = <<73>> -> "CHT"
      [] command = <<74>> -> "ED" [] command = <<75>> -> "EL"
      [] command = <<76>> -> "IL" [] command = <<77>> -> "DL"
      [] command = <<80>> -> "DCH" [] command = <<83>> -> "SU"
      [] command = <<84>> -> "SD" [] command = <<88>> -> "ECH"
      [] command = <<90>> -> "CBT" [] command = <<96>> -> "HPA"
      [] command = <<97>> -> "HPR" [] command = <<98>> -> "REP"
      [] command = <<100>> -> "VPA" [] command = <<101>> -> "VPR"
      [] command = <<102>> -> "HVP" [] command = <<103>> -> "TBC"
      [] command = <<104>> -> "SM" [] command = <<106>> -> "HPB"
      [] command = <<107>> -> "VPB" [] command = <<108>> -> "RM"
      [] command = <<109>> -> "SGR" [] command = <<33, 112>> -> "DECSTR"
      [] command = <<114>> -> "DECSTBM" [] command = <<36, 114>> -> "DECCARA"
      [] command = <<115>> -> "save_cursor" [] command = <<36, 116>> -> "DECRARA"
      [] command = <<117>> -> "restore_cursor" [] command = <<99>> -> "DA"
      [] command = <<105>> -> "MC" [] command = <<110>> -> "DSR"
      [] command = <<34, 112>> -> "DECSCL" [] command = <<34, 113>> -> "DECSCA"
      [] command = <<116>> -> "window_manipulation"
      [] command = <<78>> -> "EF" [] command = <<79>> -> "EA"
      [] command = <<81>> -> "SSE" [] command = <<82>> -> "CPR"
      [] command = <<85>> -> "NP" [] command = <<86>> -> "PP"
      [] command = <<87>> -> "CTC" [] command = <<89>> -> "CVT"
      [] command = <<91>> -> "SRS" [] command = <<92>> -> "PTX"
      [] command = <<93>> -> "SDS" [] command = <<94>> -> "SIMD"
      [] command = <<111>> -> "DAQ"
      [] OTHER -> "None"

CUU(t, param) ==
    LET p == param_list(param, 1, TRUE, 1)
    IN IF ~p.ok THEN Invalid(t)
       ELSE [t EXCEPT !.row = clip(t.row - p.l[1], t.height)]

CUD(t, param) ==
    LET p == param_list(param, 1, TRUE, 1)
    IN IF ~p.ok THEN Invalid(t)
       ELSE [t EXCEPT !.row = clip(t.row + p.l[1], t.height)]

\* Variant of CUF: the column wraps around instead of being clipped.
CUF_wraps(t, param) ==
    IF ~param_list(param, 1, TRUE, 1).ok THEN Invalid(t)
    ELSE [t EXCEPT !.col = (t.col + param_list(param, 1, TRUE, 1).l[1]) % t.width]

CUF(t, param) ==
    LET p == param_list(param, 1, TRUE, 1)
    IN IF ~p.ok THEN Invalid(t)
       ELSE [t EXCEPT !.col = clip(t.col + p.l[1], t.width)]

CUB(t, param) ==
    LET p == param_list(param, 1, TRUE, 1)
    IN IF ~p.ok THEN Invalid(t)
       ELSE [t EXCEPT !.col = clip(t.col - p.l[1], t.width)]

CNL(t, param) ==
    LET t1 == CUD(t, param)
    IN IF t1.raised # "none" THEN t1 ELSE [t1 EXCEPT !.col = 0]

CPL(t, param) ==
    LET t1 == CUU(t, param)
    IN IF t1.raised # "none" THEN t1 ELSE [t1 EXCEPT !.col = 0]

CHA(t, param) ==
    LET p == param_list(param, 1, TRUE, 1)
    IN IF ~p.ok THEN Invalid(t)
       ELSE [t EXCEPT !.col = clip(p.l[1] - 1, t.width)]

CUP(t, param) ==
    LET p == param_list(param, 1, TRUE, 2)
    IN IF ~p.ok THEN Invalid(t)
       ELSE [t EXCEPT !.row = clip(p.l[1] - 1, t.height),
                      !.col = clip(p.l[2] - 1, t.width)]

RECURSIVE HTTimes(_, _)
HTTimes(t, n) == IF n <= 0 THEN t ELSE HTTimes(HT(t), n - 1)

CHT(t, param) ==
    LET p == param_list(param, 1, TRUE, 1)
    IN IF ~p.ok THEN Invalid(t) ELSE HTTimes(t, p.l[1])

\* Variant of ED: Erase Above stops before the cursor cell.
ED_before_cursor(t, param) ==
    LET p == param_list(param, 0, TRUE, 1)
        n == p.l[1]
        H == t.height
        W == t.width
        s == t.screen
    IN IF ~p.ok THEN Invalid(t)
       ELSE IF n = 0
       THEN LET s1 == [s EXCEPT ![t.row] = FillSlice(s[t.row], W, t.col, W, None)]
            IN [t EXCEPT !.screen = FillSlice(s1, H, t.row + 1, H, BlankRow(W))]
       ELSE IF n = 1
       THEN LET s1 == FillSlice(s, H, 0, t.row, BlankRow(W))
            IN [t EXCEPT !.screen =
                   [s1 EXCEPT ![t.row] = FillSlice(s1[t.row], W, 0, t.col, None)]]
       ELSE IF n = 2
       THEN [t EXCEPT !.screen = FillSlice(s, H, 0, H, BlankRow(W))]
       ELSE t

ED(t, param) ==
    LET p == param_list(param, 0, TRUE, 1)
        n == p.l[1]
        H == t.height
        W == t.width
        s == t.screen
    IN IF ~p.ok THEN Invalid(t)
       ELSE IF n = 0
       THEN LET s1 == [s EXCEPT ![t.row] = FillSlice(s[t.row], W, t.col, W, None)]
            IN [t EXCEPT !.screen = FillSlice(s1, H, t.row + 1, H, BlankRow(W))]
       ELSE IF n = 1
       THEN LET s1 == FillSlice(s, H, 0, t.row, BlankRow(W))
            IN [t EXCEPT !.screen =
                   [s1 EXCEPT ![t.row] = FillSlice(s1[t.row], W, 0, t.col + 1, None)]]
       ELSE IF n = 2
       THEN [t EXCEPT !.screen = FillSlice(s, H, 0, H, BlankRow(W))]
       ELSE t

EL(t, param) ==
    LET p == param_list(param, 0, TRUE, 1)
        n == p.l[1]
        W == t.width
        r == t.screen[t.row]
    IN IF ~p.ok THEN Invalid(t)
       ELSE IF n = 0
       THEN [t EXCEPT !.screen[t.row] = FillSlice(r, W, t.col, W, None)]
       ELSE IF n = 1
       THEN [t EXCEPT !.screen[t.row] = FillSlice(r, W, 0, t.col + 1, None)]
       ELSE IF n = 2
       THEN [t EXCEPT !.screen[t.row] = FillSlice(r, W, 0, W, None)]
       ELSE t

\* IL: scroll(n, bottom=self.row), then CUU(param=str(n)).
IL(t, param) ==
    LET p == param_list(param, 1, TRUE, 1)
    IN IF ~p.ok THEN Invalid(t)
       ELSE LET t1 == scroll(t, p.l[1], 0, t.row)
            IN IF t1.raised # "none" THEN t1 ELSE CUU(t1, StrOf(p.l[1]))

\* DL: scroll(n, top=self.row)
DL(t, param) ==
    LET p == param_list(param, 1, TRUE, 1)
    IN IF ~p.ok THEN Invalid(t)
       ELSE scroll(t, p.l[1], t.row, t.height)

DCH(t, param) ==
    LET p == param_list(param, 1, TRUE, 1)
        n == p.l[1]
        W == t.width
        mv == AssignSlice(t.screen[t.row], W, t.col, -n, t.col + n, W)
    IN IF ~p.ok THEN Invalid(t)
       ELSE IF ~mv.ok THEN [t EXCEPT !.raised = "ValueError"]
       ELSE [t EXCEPT !.screen[t.row] = FillSlice(mv.a, W, -n, W, None)]

\* Variant of SU: the count is cut to the height before scrolling.
SU_cut(t, param) ==
    IF ~param_list(param, 1, TRUE, 1).ok THEN Invalid(t)
    ELSE scroll(t, Min(param_list(param, 1, TRUE, 1).l[1], t.height), 0, t.height)

SU(t, param) ==
    LET p == param_list(param, 1, TRUE, 1)
    IN IF ~p.ok THEN Invalid(t) ELSE scroll(t, p.l[1], 0, t.height)

SD(t, param) ==
    LET p == param_list(param, 1, TRUE, 1)
    IN IF ~p.ok THEN Invalid(t) ELSE scroll(t, -(p.l[1]), 0, t.height)

ECH(t, param) ==
    LET p == param_list(param, 1, TRUE, 1)
    IN IF ~p.ok THEN Invalid(t)
       ELSE [t EXCEPT !.screen[t.row] =
                FillSlice(t.screen[t.row], t.width, t.col, t.col + p.l[1], None)]

\* The inner while loop of CBT.
RECURSIVE CBTBack(_)
CBTBack(t) ==
    IF t.col > 0
    THEN LET t1 == [t EXCEPT !.col = t.col - 1]
         IN IF t1.tabstops[t1.col] THEN t1 ELSE CBTBack(t1)
    ELSE t

RECURSIVE CBTTimes(_, _)
CBTTimes(t, n) == IF n <= 0 THEN t ELSE CBTTimes(CBTBack(t), n - 1)

CBT(t, param) ==
    LET p == param_list(param, 1, TRUE, 1)
    IN IF ~p.ok THEN Invalid(t) ELSE CBTTimes(t, p.l[1])

HPA(t, param) == CHA(t, param)
HPR(t, param) == CUF(t, param)

RECURSIVE OutputTimes(_, _, _)
OutputTimes(t, c, n) == IF n <= 0 THEN t ELSE OutputTimes(output(t, c), c, n - 1)

REP(t, param) ==
    LET p == param_list(param, 1, TRUE, 1)
    IN IF ~p.ok THEN Invalid(t)
       ELSE IF t.previous >= 32 THEN OutputTimes(t, t.previous, p.l[1])
       ELSE t

VPA(t, param) ==
    LET p == param_list(param, 1, TRUE, 1)
    IN IF ~p.ok THEN Invalid(t)
       ELSE [t EXCEPT !.row = clip(p.l[1] - 1, t.height)]

VPR(t, param) == CUD(t, param)
HVP(t, param) == CUP(t, param)

\* TBC: tabstops[col] = False raises IndexError outside 0..width-1.
TBC(t, param) ==
    LET p == param_list(param, 0, TRUE, 1)
        n == p.l[1]
    IN IF ~p.ok THEN Invalid(t)
       ELSE IF n = 0
       THEN IF t.col \in DOMAIN t.tabstops
            THEN [t EXCEPT !.tabstops[t.col] = FALSE]
            ELSE [t EXCEPT !.raised = "IndexError"]
       ELSE IF n = 3
       THEN [t EXCEPT !.tabstops = [i \in 0..(t.width - 1) |-> FALSE]]
       ELSE t

HPB(t, param) == CUB(t, param)
VPB(t, param) == CUU(t, param)

---------------------------------------------------------------------------
(* SGR.                                                                    *)

ColorName(k) ==
    CASE k = 0 -> "black" [] k = 1 -> "red" [] k = 2 -> "green"
      [] k = 3 -> "yellow" [] k = 4 -> "blue" [] k = 5 -> "magenta"
      [] k = 6 -> "cyan" [] k = 7 -> "white"

\* The set_attr entries of the table in SGR: code -> <<key, value>>
\* (set_attr(key) with no value stores True).
SGRSet(n) ==
    CASE n = 1 -> <<"weight", "bold">> [] n = 2 -> <<"weight", "faint">>
      [] n = 3 -> <<"style", "italic">> [] n = 4 -> <<"underline", "single">>
      [] n = 5 -> <<"blink", "slow">> [] n = 6 -> <<"blink", "rapid">>
      [] n = 7 -> <<"inverse", "True">> [] n = 8 -> <<"hidden", "True">>
      [] n = 9 -> <<"strikeout", "True">> [] n = 20 -> <<"style", "fraktur">>
      [] n = 21 -> <<"underline", "double">>
      [] n >= 30 /\ n <= 37 -> <<"fg_color", ColorName(n - 30)>>
      [] n >= 40 /\ n <= 47 -> <<"bg_color", ColorName(n - 40)>>
      [] n = 51 -> <<"frame", "box">> [] n = 52 -> <<"frame", "circle">>
      [] n = 53 -> <<"overline", "True">>
      [] OTHER -> <<>>

\* The clear_attr entries of the table in SGR: code -> key.
SGRClear(n) ==
    CASE n = 22 -> "weight" [] n = 23 -> "style" [] n = 24 -> "underline"
      [] n = 25 -> "blink" [] n = 27 -> "inverse" [] n = 28 -> "hidden"
      [] n = 29 -> "strikeout" [] n = 39 -> "fg_color" [] n = 49 -> "bg_color"
      [] n = 54 -> "frame" [] n = 55 -> "overline"
      [] OTHER -> ""

\* color_256: its first statement is next(l) with l a list, which raises
\* TypeError (a list is not an iterator); only StopIteration is caught.
color_256(t) == [t EXCEPT !.raised = "TypeError"]

\* Variant of SGRCode: the cells of the screen share the map that clear_all
\* empties in place (as if output stored self.attr without copying it).
SGRCode_shared_map(t, n) ==
    IF n = 0
    THEN [t EXCEPT !.attr = {},
                   !.screen = [i \in DOMAIN t.screen |->
                                 [j \in DOMAIN t.screen[i] |->
                                    IF t.screen[i][j] = None THEN None
                                    ELSE Character(t.screen[i][j].char, {})]]]
    ELSE IF n = 38 \/ n = 48 THEN color_256(t)
    ELSE IF SGRSet(n) # <<>>
    THEN [t EXCEPT !.attr = set_attr(t.attr, SGRSet(n)[1], SGRSet(n)[2])]
    ELSE IF SGRClear(n) # ""
    THEN [t EXCEPT !.attr = clear_attr(t.attr, SGRClear(n))]
    ELSE t

\* One element n of the list: the table lookup {...}[n]().
SGRCode(t, n) ==
    IF n = 0 THEN [t EXCEPT !.attr = {}]
    ELSE IF n = 38 \/ n = 48 THEN color_256(t)
    ELSE IF SGRSet(n) # <<>>
    THEN [t EXCEPT !.attr = set_attr(t.attr, SGRSet(n)[1], SGRSet(n)[2])]
    ELSE IF SGRClear(n) # ""
    THEN [t EXCEPT !.attr = clear_attr(t.attr, SGRClear(n))]
    ELSE t

\* Variant of the loop: the list is applied from its last element to its
\* first.
RECURSIVE SGRLoop_backwards(_, _, _)
SGRLoop_backwards(t, l, i) ==
    IF i > Len(l) THEN t
    ELSE LET t1 == SGRCode(t, l[Len(l) + 1 - i])
         IN IF t1.raised # "none" THEN t1 ELSE SGRLoop_backwards(t1, l, i + 1)

\* for n in l: ...
RECURSIVE SGRLoop(_, _, _)
SGRLoop(t, l, i) ==
    IF i > Len(l) THEN t
    ELSE LET t1 == SGRCode(t, l[i])
         IN IF t1.raised # "none" THEN t1 ELSE SGRLoop(t1, l, i + 1)

\* Variant of SGR: an empty or zero parameter defaults to 1.
SGR_default_one(t, param) ==
    IF ~param_list(param, 1, TRUE, 1).ok THEN Invalid(t)
    ELSE SGRLoop(t, param_list(param, 1, TRUE, 1).l, 1)

SGR(t, param) ==
    LET p == param_list(param, 0, TRUE, 1)
    IN IF ~p.ok THEN Invalid(t) ELSE SGRLoop(t, p.l, 1)

---------------------------------------------------------------------------
(* Control sequences: parsing and dispatch.                                *)

IsParamByte(b) == b >= 48 /\ b <= 63
IsIntermediateByte(b) == b >= 32 /\ b <= 47
IsFinalByte(b) == b >= 64 /\ b <= 127

\* Number of leading parameter bytes / intermediate bytes of s from index i.
RECURSIVE LeadParams(_, _)
LeadParams(s, i) ==
    IF i <= Len(s) /\ IsParamByte(s[i]) THEN 1 + LeadParams(s, i + 1) ELSE 0

RECURSIVE LeadIntermediates(_, _)
LeadIntermediates(s, i) ==
    IF i <= Len(s) /\ IsIntermediateByte(s[i])
    THEN 1 + LeadIntermediates(s, i + 1) ELSE 0

\* re.match('^([\x30-\x3f]*)([\x20-\x2f]*[\x40-\x7f])$', s): the three
\* classes are disjoint, so the greedy match is the only one; $ also
\* matches before a final newline.
MatchControl(s) ==
    LET np == LeadParams(s, 1)
        ni == LeadIntermediates(s, np + 1)
        f == np + ni + 1
    IN IF f <= Len(s) /\ IsFinalByte(s[f])
          /\ (Len(s) = f \/ (Len(s) = f + 1 /\ s[f + 1] = 10))
       THEN [ok |-> TRUE, param |-> SubSeq(s, 1, np),
             command |-> SubSeq(s, np + 1, f)]
       ELSE [ok |-> FALSE, param |-> <<>>, command |-> <<>>]

\* Terminal.ignore_control_sequence: a debug message only.
ignore_control_sequence(t) == t

\* f(command, param) for the handler named name ("None": no handler is
\* registered for the key).
CallControl(name, t, param) ==
    CASE name = "None" -> ignore_control_sequence(t)
      [] name = "CUU" -> CUU(t, param) [] name = "CUD" -> CUD(t, param)
      [] name = "CUF" -> CUF(t, param) [] name = "CUB" -> CUB(t, param)
      [] name = "CNL" -> CNL(t, param) [] name = "CPL" -> CPL(t, param)
      [] name = "CHA" -> CHA(t, param) [] name = "CUP" -> CUP(t, param)
      [] name = "CHT" -> CHT(t, param) [] name = "ED" -> ED(t, param)
      [] name = "EL" -> EL(t, param) [] name = "IL" -> IL(t, param)
      [] name = "DL" -> DL(t, param) [] name = "DCH" -> DCH(t, param)
      [] name = "SU" -> SU(t, param) [] name = "SD" -> SD(t, param)
      [] name = "ECH" -> ECH(t, param) [] name = "CBT" -> CBT(t, param)
      [] name = "HPA" -> HPA(t, param) [] name = "HPR" -> HPR(t, param)
      [] name = "REP" -> REP(t, param) [] name = "VPA" -> VPA(t, param)
      [] name = "VPR" -> VPR(t, param) [] name = "HVP" -> HVP(t, param)
      [] name = "TBC" -> TBC(t, param) [] name = "HPB" -> HPB(t, param)
      [] name = "VPB" -> VPB(t, param) [] name = "SGR" -> SGR(t, param)
      [] OTHER -> Unimplemented(t)

\* Terminal.dispatch_control_sequence
\* except InvalidParameterListError: self.invalid_control_sequence()
CatchInvalid(r) ==
    IF r.raised = "InvalidParameterListError"
    THEN [r EXCEPT !.raised = "none"]
    ELSE r

\* The part of dispatch_control_sequence after re.match: m is the match.
DispatchMatch(t, m) ==
    IF ~m.ok THEN t
    ELSE CatchInvalid(CallControl(control_sequences(m.command), t, m.param))

dispatch_control_sequence(t, c) ==
    DispatchMatch(collect(t, c), MatchControl(Append(t.collected, c)))

\* Terminal.parse_control_sequence
parse_control_sequence(t, c) ==
    IF c < 32 THEN execute(t, c)
    ELSE IF c < 64 THEN collect(t, c)
    ELSE IF c < 127
    THEN dispatch_control_sequence([t EXCEPT !.next_state = "ground"], c)
    ELSE ignore(t)

---------------------------------------------------------------------------
(* Control strings.                                                        *)

\* finish_control_string: finish_<state> is None or missing for every state,
\* so ignore_control_string is called.
finish_control_string(t) == [t EXCEPT !.next_state = "ground"]

cancel_control_string(t) == [t EXCEPT !.next_state = "ground"]

\* parse_control_string that executes the C0 controls met inside a string.
parse_control_string_executes(t, c) ==
    IF c = CAN_ \/ c = SUB_ THEN cancel_control_string(t)
    ELSE IF c = BEL_ /\ t.state = "osc" THEN finish_control_string(t)
    ELSE IF t.collected # <<>> /\ t.collected[Len(t.collected)] = ESC_
    THEN LET t1 == [t EXCEPT !.collected =
                       SubSeq(t.collected, 1, Len(t.collected) - 1)]
         IN IF c = 92 THEN finish_control_string(t1)
            ELSE cancel_control_string(t1)
    ELSE IF c < 32 /\ c # ESC_ THEN execute(t, c)
    ELSE collect(t, c)

\* Terminal.parse_control_string
parse_control_string(t, c) ==
    IF c = CAN_ \/ c = SUB_ THEN cancel_control_string(t)
    ELSE IF c = BEL_ /\ t.state = "osc" THEN finish_control_string(t)
    ELSE IF t.collected # <<>> /\ t.collected[Len(t.collected)] = ESC_
    THEN LET t1 == [t EXCEPT !.collected =
                       SubSeq(t.collected, 1, Len(t.collected) - 1)]
         IN IF c = 92 THEN finish_control_string(t1)
            ELSE cancel_control_string(t1)
    ELSE collect(t, c)

---------------------------------------------------------------------------
(* The parser.                                                             *)

\* Terminal.parse_ground
parse_ground(t, c) ==
    LET t1 == [t EXCEPT !.previous = t.current, !.current = c]
    IN IF c < 32 THEN execute(t1, c) ELSE output(t1, c)

\* The states s for which the class defines parse_<s>.
ParseHandlers ==
    {"ground", "escape", "control_sequence", "osc", "dsc", "sos", "pm", "apc"}

\* The states s for which the class defines enter_<s> (all clear_on_enter).
EnterHandlers == {"escape", "control_sequence", "osc", "dsc", "sos", "apc", "pm"}

\* Variant of transition: no enter_<state> hook is called.
transition_keeps(t) ==
    [t EXCEPT !.next_state = "None", !.state = t.next_state, !.prev_state = t.state]

\* Terminal.transition (no leave_<state> is defined).
transition(t) ==
    LET t1 == [t EXCEPT !.next_state = "None", !.state = t.next_state,
                        !.prev_state = t.state]
    IN IF t1.state # t1.prev_state /\ t1.state \in EnterHandlers
       THEN clear(t1)
       ELSE t1

\* getattr(self, 'parse_%s' % self.state), then f(c).
ParseState(t, c) ==
    CASE t.state = "ground" -> parse_ground(t, c)
      [] t.state = "escape" -> parse_escape(t, c)
      [] t.state = "control_sequence" -> parse_control_sequence(t, c)
      [] t.state \in {"osc", "dsc", "sos", "pm", "apc"} -> parse_control_string(t, c)

\* Terminal.parse_single.  An exception leaves the object as it was when the
\* exception was raised: transition() is not reached.
\* The end of parse_single: self.transition(), unless f(c) raised.
AfterParse(t) == IF t.raised # "none" THEN t ELSE transition(t)

parse_single(t, c) ==
    IF t.state \notin ParseHandlers
    THEN [t EXCEPT !.raised = "RuntimeError"]
    ELSE AfterParse(ParseState([t EXCEPT !.next_state = t.state,
                                         !.raised = "none"], c))

\* The loop of Terminal.parse, "for c in s: self.parse_single(c)": an
\* exception raised by parse_single ends it.
RECURSIVE ParseLoop(_, _)
ParseLoop(t, s) ==
    IF s = <<>> \/ t.raised # "none" THEN t
    ELSE ParseLoop(parse_single(t, Head(s)), Tail(s))

\* Variant of parse: the call starts with self.clear().
parse_clears(t, s) == ParseLoop(clear([t EXCEPT !.raised = "none"]), s)

\* Terminal.parse(s)
parse(t, s) == ParseLoop([t EXCEPT !.raised = "none"], s)

---------------------------------------------------------------------------
(* Output: to_string and the line formatters.  A returned string is a      *)
(* sequence of tokens: a character, <span style="..."> or </span>.  A      *)
(* style string "k: v v; k: v" is carried as the set of its <<k, v>>       *)
(* pairs, the empty string as the empty set.                               *)

Chr(c) == [char |-> c]
SpanOpen(style) == [span |-> style]
SpanClose == [close |-> TRUE]

\* What to_string returns when there is no line at all: None.
NoString == <<[none |-> TRUE]>>

\* fixup_line.is_None
is_None(x) == x = None

\* The loops of drop_end pass over x: with predicate None, "if x: break"
\* stops at a non-empty list; otherwise "if not predicate(x): break", the
\* predicate being is_None.
Dropped(predicate, x) ==
    IF predicate = "None" THEN x = <<>> ELSE is_None(x)

\* Terminal.drop_end: the sequence without its longest tail of elements the
\* loop passes over (sequence[:-i], or the sequence itself when i == 0).
drop_end(predicate, sequence) ==
    LET n == Len(sequence)
        i == CHOOSE k \in 0..n :
                 /\ \A m \in (n - k + 1)..n : Dropped(predicate, sequence[m])
                 /\ k < n => ~Dropped(predicate, sequence[n - k])
    IN IF i = 0 THEN sequence ELSE SubSeq(sequence, 1, n - i)

\* fixup_line.convert_to_blank
convert_to_blank(x) == IF x # None THEN x ELSE Character(32, {})

\* The cells of a row of the array, as a list.
RowCells(line) == [k \in 1..Cardinality(DOMAIN line) |-> line[k - 1]]

\* Variant of fixup_line: the empty cells at the end of the line are kept.
fixup_line_keeps_end(line) ==
    [k \in 1..Cardinality(DOMAIN line) |->
        IF line[k - 1] # None THEN line[k - 1] ELSE Character(32, {})]

\* Terminal.fixup_line
fixup_line(line) ==
    LET d == drop_end("is_None", RowCells(line))
    IN [k \in 1..Len(d) |-> convert_to_blank(d[k])]

\* format_text with eol = '\n'
format_text(line) ==
    [raised |-> "none",
     s |-> [k \in 1..Len(line) |-> Chr(line[k].char)] \o <<Chr(LF_)>>]

\* html_attr_map: key -> (css property, value mapping).  The value mapping
\* is None (the value is kept), a string (it replaces the value) or a dict.
html_attr_map(key) ==
    CASE key = "fg_color" -> [css |-> "color", v |-> "None"]
      [] key = "bg_color" -> [css |-> "background-color", v |-> "None"]
      [] key = "weight" -> [css |-> "font-weight", v |-> "dict"]
      [] key = "underline" -> [css |-> "text-decoration", v |-> "underline"]
      [] key = "style" -> [css |-> "font-style", v |-> "dict"]
      [] key = "blink" -> [css |-> "text-decoration", v |-> "blink"]
      [] key = "hidden" -> [css |-> "display", v |-> "hidden"]
      [] key = "strikeout" -> [css |-> "text-decoration", v |-> "line-through"]
      [] key = "overline" -> [css |-> "text-decoration", v |-> "overlie"]
      [] OTHER -> [css |-> "KeyError", v |-> "None"]

\* The dicts of html_attr_map: {'bold':'bold', 'feint':'lighter'} and
\* {'italic':'italic'}.
html_value_map(key, value) ==
    CASE key = "weight" /\ value = "bold" -> "bold"
      [] key = "weight" /\ value = "feint" -> "lighter"
      [] key = "style" /\ value = "italic" -> "italic"
      [] OTHER -> "KeyError"

\* The item <<key, value>> of an attribute map has no mapping: one of the
\* two "except KeyError" branches of apply_attr_map is taken.
Unmapped(p) ==
    \/ html_attr_map(p[1]).css = "KeyError"
    \/ html_attr_map(p[1]).v = "dict" /\ html_value_map(p[1], p[2]) = "KeyError"

\* The <<css property, value>> an item is mapped to.
MappedItem(p) ==
    <<html_attr_map(p[1]).css,
      IF html_attr_map(p[1]).v = "None" THEN p[2]
      ELSE IF html_attr_map(p[1]).v = "dict" THEN html_value_map(p[1], p[2])
      ELSE html_attr_map(p[1]).v>>

\* apply_attr_map(attr, html_attr_map).  Both "except KeyError" branches
\* call print(..., f=sys.stderr): 'f' is not a keyword of the print
\* function, so the call raises TypeError.
apply_attr_map(a) ==
    IF \E p \in a : Unmapped(p)
    THEN [raised |-> "TypeError", out |-> {}]
    ELSE [raised |-> "none", out |-> { MappedItem(p) : p \in a }]

\* format_html_attr
format_html_attr(a) == apply_attr_map(a)

\* The loop "for c in line" of format_html, from cell k on.
RECURSIVE HtmlLoop(_, _, _, _)
HtmlLoop(line, k, last_style, out) ==
    IF k > Len(line)
    THEN [raised |-> "none",
          s |-> out \o (IF last_style # {} THEN <<SpanClose>> ELSE <<>>)
                    \o <<Chr(LF_)>>]
    ELSE LET m == format_html_attr(line[k].attr)
             style == m.out
             o1 == IF style # last_style
                   THEN out \o (IF last_style # {} THEN <<SpanClose>> ELSE <<>>)
                            \o (IF style # {} THEN <<SpanOpen(style)>> ELSE <<>>)
                   ELSE out
         IN IF m.raised # "none" THEN [raised |-> m.raised, s |-> <<>>]
            ELSE HtmlLoop(line, k + 1, style, Append(o1, Chr(line[k].char)))

\* format_html with eol = '\n'
format_html(line) == HtmlLoop(line, 1, {}, <<>>)

\* formatters: name -> format_line
format_line(name, line) ==
    IF name = "html" THEN format_html(line) ELSE format_text(line)

\* ''.join(format_line(line) for line in lines), from line k on.
RECURSIVE JoinLines(_, _, _, _)
JoinLines(name, lines, k, out) ==
    IF k > Len(lines) THEN [raised |-> "none", s |-> out]
    ELSE LET f == format_line(name, lines[k])
         IN IF f.raised # "none" THEN [raised |-> f.raised, s |-> <<>>]
            ELSE JoinLines(name, lines, k + 1, out \o f.s)

\* Terminal.to_string(history, screen, remove_blank_end, format_line)
to_string(t, hist, scr, remove_blank_end, name) ==
    LET lines == (IF hist
                  THEN [k \in 1..Len(t.history) |-> fixup_line(t.history[k])]
                  ELSE <<>>)
                 \o (IF scr
                     THEN [k \in 1..t.height |-> fixup_line(t.screen[k - 1])]
                     ELSE <<>>)
    IN IF lines = <<>> THEN [raised |-> "none", s |-> NoString]
       ELSE JoinLines(name,
                      IF remove_blank_end THEN drop_end("None", lines) ELSE lines,
                      1, <<>>)

---------------------------------------------------------------------------
(* The caller.  The caller feeds strings unit by unit (Terminal.parse is   *)
(* the loop "for c in s: parse_single(c)"); the strings it may feed are    *)
(* those of a catalogue.  A session starts with a preamble of printable    *)
(* characters and line feeds that puts text on the screen.                 *)

\* ESC [ param final
CSIWord(param, final) == <<ESC_, 91>> \o param \o final

\* Parameter strings.
P_(n) == StrOf(n)
P2_(n, m) == StrOf(n) \o <<59>> \o StrOf(m)

\* Row i of a filled screen holds the letter 'a' + i.
RowText(i, w) == [k \in 1..w |-> 97 + i]

RECURSIVE FillText(_, _)
FillText(n, w) == IF n = 0 THEN <<>> ELSE FillText(n - 1, w) \o RowText(n - 1, w)

RECURSIVE Repeat(_, _)
Repeat(c, n) == IF n <= 0 THEN <<>> ELSE <<c>> \o Repeat(c, n - 1)

Preambles(h, w) ==
    { <<>>,                                  \* nothing
      RowText(0, w),                         \* one full row: pending wrap
      FillText(h, w),                        \* full screen: pending wrap at the bottom
      FillText(h, w) \o <<122>>,             \* one more: the top row is in history
      Repeat(LF_, h - 1) \o <<97>> }         \* one character on the bottom row

SingleWords ==
    { <<c>> : c \in {120, 0, BEL_, BS_, HT_, LF_, CR_, CAN_, ESC_, 127} }

EscapeWords ==
    { <<ESC_, f>> : f \in {68, 69, 72, 77, 80, 88, 92, 93, 94, 95, 55, 56, 99, 89} }
    \cup { <<ESC_, 91>>, <<ESC_, 35, 68>>, <<ESC_, 40, 66>> }

MotionWords(h, w) ==
    { CSIWord(p, <<f>>) : p \in {<<>>, P_(2), P_(h + w)},
                          f \in {65, 66, 67, 68, 71, 72, 100} }
    \cup { CSIWord(P_(0), <<f>>) : f \in {65, 72} }
    \cup { CSIWord(p, <<72>>) : p \in {P2_(2, 2), <<59, 50>>, P2_(2, h + w)} }
    \cup { CSIWord(P_(2), <<f>>) : f \in {69, 70, 96, 97, 101, 102, 106, 107} }

EditWords(h, w) ==
    { CSIWord(<<>>, <<f>>) : f \in {73, 90, 74, 75, 76, 77, 80, 83, 84, 88, 98, 103} }
    \cup { CSIWord(P_(2), <<f>>) : f \in {74, 75, 76, 77, 80, 83, 84, 88, 98} }
    \cup { CSIWord(P_(1), <<f>>) : f \in {74, 75} }
    \cup { CSIWord(P_(h), <<83>>), CSIWord(P_(h + 1), <<83>>),
           CSIWord(P_(h + 2), <<83>>), CSIWord(P_(3), <<103>>) }

SGRWords ==
    { CSIWord(p, <<109>>) :
        p \in { <<>>, P_(1), P2_(0, 1), P2_(1, 38),
                <<51, 56, 59, 53, 59, 49>> } }

StubWords ==
    { CSIWord(<<>>, k) : k \in { <<64>>, <<114>>, <<104>>, <<108>>, <<115>>,
                                  <<117>>, <<33, 112>>, <<99>>, <<112>> } }
    \cup { CSIWord(<<63, 50, 53>>, <<104>>), CSIWord(P2_(1, 2), <<114>>) }

InvalidWords ==
    { CSIWord(<<>>, <<45, 49, 109>>),         \* ESC [ - 1 m
      CSIWord(<<63, 49>>, <<109>>),           \* ESC [ ? 1 m
      CSIWord(<<63, 50>>, <<74>>),            \* ESC [ ? 2 J
      CSIWord(<<49, 58, 50>>, <<72>>),        \* ESC [ 1 : 2 H
      CSIWord(<<60, 49>>, <<65>>),            \* ESC [ < 1 A
      CSIWord(<<49>>, <<32, 50, 65>>) }       \* ESC [ 1 SP 2 A

StringWords ==
    { <<ESC_, 93, 120, BEL_>>, <<ESC_, 93, 120, ESC_, 92>>,
      <<ESC_, 93, LF_, ESC_, 120>>, <<ESC_, 88, 120, CAN_>>,
      <<ESC_, 94, BS_, ESC_, 92>>, <<ESC_, 95, 120, ESC_, 92>> }

GroundWords == { <<c>> : c \in {65, 66, 67, BS_, LF_} }

\* Attribute sessions: x, X, line feed and SGR sequences.
AttrWords ==
    { <<120>>, <<88>>, <<LF_>> }
    \cup { CSIWord(p, <<109>>) :
             p \in { <<>>, P_(0), P_(1), P_(22), P_(4), P_(31), P_(39), P_(7),
                     P2_(1, 31), P2_(0, 4), P2_(1, 0), P2_(0, 1),
                     P_(38), <<51, 56, 59, 53>>, P2_(1, 38),
                     <<51, 56, 59, 50, 59, 49>>,            \* 38;2;1
                     <<51, 56, 59, 53, 59, 49, 57, 54>>,    \* 38;5;196
                     <<52, 56, 59, 53, 59, 49>> } }         \* 48;5;1

\* Text written with attributes set.
AttrPreambles ==
    { <<>>,
      CSIWord(P_(1), <<109>>) \o <<97>>,
      CSIWord(P2_(4, 31), <<109>>) \o <<97, 98>> }

\* Split sessions: one word for every kind of sequence, those that raise
\* included.
SplitWords ==
    { <<120>>, <<LF_>>, <<ESC_, 68>>, <<ESC_, 35, 68>>, <<ESC_, 72>>, <<ESC_, 80>>,
      CSIWord(P_(2), <<65>>), CSIWord(P_(1), <<109>>),
      CSIWord(<<63, 49>>, <<109>>), CSIWord(<<51, 56, 59, 53, 59, 49>>, <<109>>),
      <<ESC_, 93, 120, BEL_>>, <<ESC_, 93, 120, ESC_, 92>>, <<ESC_, 88, 120, CAN_>> }

\* The strings made of at most n words of W.
RECURSIVE Concats(_, _)
Concats(n, W) ==
    IF n = 0 THEN {<<>>}
    ELSE {<<>>} \cup { wd \o r : wd \in W, r \in Concats(n - 1, W) }

\* Tab sessions: x, line feed, horizontal tab and CHA to every column.
TabWords(w) ==
    { <<120>>, <<LF_>>, <<HT_>> } \cup { CSIWord(P_(n), <<71>>) : n \in 1..w }

\* Sequence sessions: the caller feeds single bytes: ESC, '[', '2', '#',
\* 'A', 'D', CAN and SUB.
SeqWords == { <<c>> : c \in {ESC_, 91, 50, 35, 65, 68, CAN_, SUB_} }

\* Render sessions: x, line feed and SGR sequences: bold, faint, underline,
\* inverse, red and reset.
RenderWords ==
    { <<120>>, <<LF_>> }
    \cup { CSIWord(P_(n), <<109>>) : n \in {1, 2, 4, 7, 31, 0} }

\* The finals of the counted commands: CUU, CUD, CUF, CUB, CHA, CUP, CHT,
\* DL, DCH, SU, SD, ECH, CBT, VPA.
CountedFinals == {65, 66, 67, 68, 71, 72, 73, 77, 80, 83, 84, 88, 90, 100}

\* Count sessions: every counted command with its parameter omitted and
\* with the parameter 0, and CUP with one or both parameters empty or 0.
CountWords ==
    { CSIWord(p, <<f>>) : p \in {<<>>, P_(0)}, f \in CountedFinals }
    \cup { CSIWord(p, <<72>>) :
              p \in { <<59>>, P_(2), <<50, 59>>, <<59, 50>>, P2_(0, 2), P2_(2, 0),
                      P2_(0, 0), P2_(2, 2) } }

\* Repeat sessions: printable characters, a line feed, an SGR and REP with
\* and without a count.
RepeatWords ==
    { <<120>>, <<121>>, <<LF_>>, CSIWord(P_(1), <<109>>),
      CSIWord(<<>>, <<98>>), CSIWord(P_(2), <<98>>) }

PreamblesOf(cat, h, w) ==
    CASE cat = "ground" -> {<<>>}
      [] cat = "repeat" -> {<<>>}
      [] cat = "render" -> {<<>>, <<120, LF_, LF_>>}
      [] cat = "seq" -> { Repeat(LF_, h - 1) \o <<97>> }
      [] cat = "tab" -> {<<>>, RowText(0, w)}
      [] cat = "sgr" -> AttrPreambles
      [] OTHER -> Preambles(h, w)

Words(cat, h, w) ==
    IF cat = "ground" THEN GroundWords
    ELSE IF cat = "sgr" THEN AttrWords
    ELSE IF cat = "tab" THEN TabWords(w)
    ELSE IF cat = "seq" THEN SeqWords
    ELSE IF cat = "render" THEN RenderWords
    ELSE IF cat = "count" THEN CountWords
    ELSE IF cat = "repeat" THEN RepeatWords
    ELSE SingleWords \cup EscapeWords \cup MotionWords(h, w) \cup EditWords(h, w)
         \cup SGRWords \cup StubWords \cup InvalidWords \cup StringWords

\* The caller has not called to_string.
NoRequest ==
    [history |-> FALSE, screen |-> FALSE, remove_blank_end |-> FALSE,
     format_line |-> "None"]

\* What the caller may hand to parse_single next: <<unit, rest, budget>>.
Offers ==
    IF pending # <<>> THEN { <<Head(pending), Tail(pending), budget>> }
    ELSE IF budget > 0
    THEN { <<Head(wd), Tail(wd), budget - 1>> : wd \in Words(catalogue, height, width) }
    ELSE {}

---------------------------------------------------------------------------
(* The state machine.                                                      *)

Term ==
    [state |-> state, prev_state |-> prev_state, next_state |-> next_state,
     collected |-> collected, row |-> row, col |-> col, screen |-> screen,
     history |-> history, previous |-> previous, current |-> current,
     tabstops |-> tabstops, attr |-> attr, height |-> height, width |-> width,
     raised |-> raised]

IsTerm(t) ==
    /\ state = t.state /\ prev_state = t.prev_state /\ next_state = t.next_state
    /\ collected = t.collected /\ row = t.row /\ col = t.col
    /\ screen = t.screen /\ history = t.history /\ previous = t.previous
    /\ current = t.current /\ tabstops = t.tabstops /\ attr = t.attr
    /\ height = t.height /\ width = t.width /\ raised = t.raised

\* One call parse_single(c) by the caller.
Feed(o) ==
    \E t \in {parse_single(Term, o[1])} :
       /\ state' = t.state /\ prev_state' = t.prev_state
       /\ next_state' = t.next_state /\ collected' = t.collected
       /\ row' = t.row /\ col' = t.col /\ screen' = t.screen
       /\ history' = t.history /\ previous' = t.previous
       /\ current' = t.current /\ tabstops' = t.tabstops /\ attr' = t.attr
       /\ height' = t.height /\ width' = t.width /\ raised' = t.raised
       /\ unit' = o[1]
       /\ input' = (IF catalogue \in {"ground", "seq", "repeat"}
                    THEN Append(input, o[1]) ELSE input)
       /\ pending' = o[2]
       /\ budget' = o[3]
       /\ catalogue' = catalogue
       /\ request' = request
       /\ rendered' = rendered

ParseGround == state = "ground" /\ \E o \in Offers : Feed(o)
ParseEscape == state = "escape" /\ \E o \in Offers : Feed(o)
ParseControlSequence == state = "control_sequence" /\ \E o \in Offers : Feed(o)
ParseControlString ==
    state \in {"osc", "dsc", "sos", "pm", "apc"} /\ \E o \in Offers : Feed(o)
ParseUnknownState == state \notin ParseHandlers /\ \E o \in Offers : Feed(o)

InitSession(sizes, cat, b) ==
    \E sz \in sizes :
        /\ IsTerm(NewTerminal(sz[1], sz[2]))
        /\ unit = -1
        /\ input = <<>>
        /\ catalogue = cat
        /\ budget = b
        /\ pending \in PreamblesOf(cat, sz[1], sz[2])
        /\ request = NoRequest
        /\ rendered = <<>>

Init == InitSession({<<h, MaxWidth>> : h \in 1..MaxHeight}, "all", MaxWords)

Next ==
    \/ ParseGround
    \/ ParseEscape
    \/ ParseControlSequence
    \/ ParseControlString
    \/ ParseUnknownState

Spec == Init /\ [][Next]_vars

\* Sessions of printable characters, backspace and line feed only, on small
\* screens and on the default 24 x 80 screen.
InitGround ==
    InitSession({<<h, w>> : h \in 1..MaxHeight, w \in 1..MaxWidth}
                    \cup {<<DefaultHeight, DefaultWidth>>},
                "ground", MaxGround)

NextGround == ParseGround

SpecGround == InitGround /\ [][NextGround]_vars

\* Sessions of text and SGR sequences, on a one-row screen (a line feed
\* scrolls) and on a screen of MaxHeight rows.
InitSGR ==
    InitSession({<<1, MaxWidth>>, <<MaxHeight, MaxWidth>>}, "sgr", MaxSGRWords)

NextSGR ==
    \/ ParseGround
    \/ ParseEscape
    \/ ParseControlSequence

SpecSGR == InitSGR /\ [][NextSGR]_vars

\* Sessions of text, tabs and column addressing on two-row screens of every
\* width up to MaxTabWidth.
InitTab ==
    InitSession({<<2, w>> : w \in 1..MaxTabWidth}, "tab", MaxTabWords)

NextTab ==
    \/ ParseGround
    \/ ParseEscape
    \/ ParseControlSequence

SpecTab == InitTab /\ [][NextTab]_vars

\* Sessions fed byte by byte, starting with one character on the bottom row
\* of a screen of MaxHeight rows.
InitSeq == InitSession({<<MaxHeight, MaxWidth>>}, "seq", MaxSeqBytes)

NextSeq ==
    \/ ParseGround
    \/ ParseEscape
    \/ ParseControlSequence

SpecSeq == InitSeq /\ [][NextSeq]_vars

\* Sessions of counted commands on a screen of MaxHeight rows and on a
\* two-row screen wide enough to hold a second tab stop.
InitCount ==
    InitSession({<<MaxHeight, MaxWidth>>, <<2, TabInterval + 2>>}, "count",
                MaxCountWords)

NextCount ==
    \/ ParseGround
    \/ ParseEscape
    \/ ParseControlSequence

SpecCount == InitCount /\ [][NextCount]_vars

\* Repeat sessions.
InitRepeat == InitSession({<<MaxHeight - 1, MaxWidth>>}, "repeat", MaxRepeatWords)

NextRepeat ==
    \/ ParseGround
    \/ ParseEscape
    \/ ParseControlSequence

SpecRepeat == InitRepeat /\ [][NextRepeat]_vars

\* Render sessions: once the string is fed the caller calls to_string, with
\* any flags and either formatter, and the session ends (budget = -1).
InitRender ==
    InitSession({<<1, 2>>, <<MaxHeight - 1, MaxWidth - 1>>}, "render", MaxRenderWords)

Render ==
    /\ catalogue = "render" /\ pending = <<>> /\ budget >= 0
    /\ \E hist \in BOOLEAN, scr \in BOOLEAN, rbe \in BOOLEAN, name \in {"text", "html"} :
          \E r \in {to_string(Term, hist, scr, rbe, name)} :
             /\ rendered' = r.s
             /\ raised' = r.raised
             /\ request' = [history |-> hist, screen |-> scr,
                            remove_blank_end |-> rbe, format_line |-> name]
    /\ budget' = -1
    /\ UNCHANGED <<state, prev_state, next_state, collected, row, col, screen,
                   history, previous, current, tabstops, attr, height, width,
                   unit, input, pending, catalogue>>

NextRender ==
    \/ ParseGround
    \/ ParseEscape
    \/ ParseControlSequence
    \/ Render

SpecRender == InitRender /\ [][NextRender]_vars

\* The terminal becomes t.
Becomes(t) ==
    /\ state' = t.state /\ prev_state' = t.prev_state
    /\ next_state' = t.next_state /\ collected' = t.collected
    /\ row' = t.row /\ col' = t.col /\ screen' = t.screen
    /\ history' = t.history /\ previous' = t.previous
    /\ current' = t.current /\ tabstops' = t.tabstops /\ attr' = t.attr
    /\ height' = t.height /\ width' = t.width /\ raised' = t.raised

\* Split sessions: the caller holds a string s (pending) and a split point
\* (budget >= 0); it calls parse(s1), then, unless that call raised,
\* parse(s2).  budget = -1 after the first call and -2 after the second;
\* input is the part of s handed to parse so far and, from the first call
\* on, pending is s2.  unit is not tracked.
InitSplit ==
    \E h \in {1, MaxHeight} :
        /\ IsTerm(NewTerminal(h, MaxWidth))
        /\ unit = -1
        /\ input = <<>>
        /\ catalogue = "split"
        /\ pending \in Concats(MaxSplitWords, SplitWords)
        /\ budget \in 0..Len(pending)
        /\ request = NoRequest
        /\ rendered = <<>>

ParseHead ==
    /\ catalogue = "split" /\ budget >= 0
    /\ Becomes(parse(Term, SubSeq(pending, 1, budget)))
    /\ input' = SubSeq(pending, 1, budget)
    /\ pending' = SubSeq(pending, budget + 1, Len(pending))
    /\ budget' = -1
    /\ UNCHANGED <<unit, catalogue, request, rendered>>

ParseTail ==
    /\ catalogue = "split" /\ budget = -1 /\ raised = "none"
    /\ Becomes(parse(Term, pending))
    /\ input' = input \o pending
    /\ budget' = -2
    /\ UNCHANGED <<unit, pending, catalogue, request, rendered>>

NextSplit ==
    \/ ParseHead
    \/ ParseTail

SpecSplit == InitSplit /\ [][NextSplit]_vars

---------------------------------------------------------------------------
(* Properties.  A step of the state machine is one call parse_single(unit'); *)
(* unprimed variables are the terminal before the call, primed ones after. *)

\* Every unit of the transcript is printable (parse_ground outputs c >= 0x20).
AllPrintable(s) == \A i \in 1..Len(s) : s[i] >= 32

\* Row r of the screen shows exactly the characters of text from column 0 on,
\* and nothing else.
RowShows(r, text) ==
    \A j \in 0..(width - 1) :
        IF j < Len(text)
        THEN screen[r][j] # None /\ screen[r][j].char = text[j + 1]
        ELSE screen[r][j] = None

RowsEmptyFrom(r) == \A i \in r..(height - 1) : RowShows(i, <<>>)

\* The collected bytes are digits and ';' only: a numeric parameter string.
NumericParams(s) == \A i \in 1..Len(s) : IsDigit(s[i]) \/ s[i] = 59

\* The k-th numeric parameter (k = 1, 2) with the cursor commands' default 1.
Arg(s, k) == param_list(s, 1, TRUE, 2).l[k]

\* C1: after any sequence of input units the cursor satisfies
\* 0 <= row < height and 0 <= col <= width.
CursorInBounds == row >= 0 /\ row < height /\ col >= 0 /\ col <= width

\* The cursor is at the pending-wrap column of the bottom row after the
\* screen has scrolled and a command has moved it.
CursorPendingWrapAtBottom ==
    /\ col = width /\ row = height - 1 /\ height > 1
    /\ history # <<>> /\ raised = "none"
    /\ prev_state = "control_sequence" /\ state = "ground"

\* C2: parse_single completes for every unit without raising, and the parser
\* state after each unit has a parse handler.
NeverRaises == raised = "none" /\ state \in ParseHandlers

\* C3: on a fresh terminal, n < width printable characters are stored in row 0
\* at columns 0..n-1 in input order, every other cell is empty and the cursor
\* is at (0, n).
PrintablePassthrough ==
    (AllPrintable(input) /\ Len(input) < width) =>
        /\ row = 0 /\ col = Len(input)
        /\ RowShows(0, input)
        /\ RowsEmptyFrom(1)

TwoPrintablesPassed ==
    /\ AllPrintable(input) /\ Len(input) >= 2 /\ Len(input) < width
    /\ input[1] # input[2]

\* C4: on a fresh terminal with height >= 2, exactly width printable
\* characters leave the cursor at (0, width) with nothing scrolled; one more
\* is stored at (1, 0), the cursor becomes (1, 1), row 0 is unchanged, no
\* blank row is inserted and the history stays empty.
DeferredWrap ==
    (AllPrintable(input) /\ height >= 2) =>
        /\ Len(input) = width =>
              /\ row = 0 /\ col = width /\ history = <<>>
              /\ RowShows(0, input)
              /\ RowsEmptyFrom(1)
        /\ Len(input) = width + 1 =>
              /\ row = 1 /\ col = 1 /\ history = <<>>
              /\ RowShows(0, SubSeq(input, 1, width))
              /\ RowShows(1, <<input[width + 1]>>)
              /\ RowsEmptyFrom(2)

WrappedOnce ==
    AllPrintable(input) /\ height >= 2 /\ width >= 2 /\ Len(input) = width + 1

\* The transcript A, B, backspace, C, line feed on the default screen.
EndToEndInput ==
    /\ height = DefaultHeight /\ width = DefaultWidth
    /\ input = <<65, 66, BS_, 67, LF_>>

\* C5 as stated: on a fresh 80 x 24 terminal the input A, B, backspace, C,
\* line feed produces row 0 = "AC" and leaves the cursor at row 1, column 0.
EndToEndColumnZero ==
    EndToEndInput => RowShows(0, <<65, 67>>) /\ row = 1 /\ col = 0

\* C5: on a fresh 80 x 24 terminal the input A, B, backspace, C, line feed
\* produces row 0 = "AC" and leaves the cursor at row 1, column 2: the line
\* feed moves the cursor down and keeps its column.
EndToEnd ==
    EndToEndInput => RowShows(0, <<65, 67>>) /\ row = 1 /\ col = 2

EndToEndFed == EndToEndInput /\ screen[0][1] # None


\* The step dispatches the control sequence ESC [ collected unit' whose
\* parameter string is numeric and whose key is the final byte f alone.
DispatchesNumeric(f) ==
    state = "control_sequence" /\ unit' = f /\ NumericParams(collected)

\* The finals of CUU, CUD, CUF, CUB, CHA, CUP, HPA, VPA, HVP.
MotionFinals == {65, 66, 67, 68, 71, 72, 96, 100, 102}

\* Where a cursor motion with final f and parameters n, m takes the cursor
\* <<r, k>> on a screen of h rows and w columns.
MotionTarget(f, n, m, r, k, h, w) ==
    CASE f = 65 -> <<Max(r - n, 0), k>>
      [] f = 66 -> <<Min(r + n, h - 1), k>>
      [] f = 67 -> <<r, Min(k + n, w - 1)>>
      [] f = 68 -> <<r, Max(k - n, 0)>>
      [] f \in {71, 96} -> <<r, Min(n - 1, w - 1)>>
      [] f = 100 -> <<Min(n - 1, h - 1), k>>
      [] f \in {72, 102} -> <<Min(n - 1, h - 1), Min(m - 1, w - 1)>>

MotionClamps(f) ==
    DispatchesNumeric(f) =>
        /\ <<row', col'>> = MotionTarget(f, Arg(collected, 1), Arg(collected, 2),
                                         row, col, height, width)
        /\ row' \in 0..(height - 1)
        /\ f \in {67, 68, 71, 72, 96, 102} => col' \in 0..(width - 1)
        /\ screen' = screen /\ history' = history
        /\ raised' = "none" /\ state' = "ground"

\* C6: CUU, CUD, CUF, CUB, CHA/HPA, VPA and CUP/HVP with any parameter value,
\* in any state, set the targeted coordinate to the clamped value (a move up
\* by more than the current row ends at row 0), never wrap, never scroll, and
\* leave every screen cell and the history unchanged.
CursorMotionClamps == [][\A f \in MotionFinals : MotionClamps(f)]_vars

\* CUU by more than the number of rows, dispatched with the cursor at the
\* pending-wrap column of the bottom row of a full screen.
CursorMovedUpPastTop ==
    /\ unit = 65 /\ collected = Append(StrOf(height + width), 65)
    /\ state = "ground" /\ prev_state = "control_sequence"
    /\ height > 1 /\ row = 0 /\ col = width
    /\ screen[height - 1][width - 1] # None /\ history = <<>>

\* The effect of a full-screen scroll up by k on history and screen.
ScrolledUp(k) ==
    /\ history' = history \o [i \in 1..k |-> screen[i - 1]]
    /\ \A i \in k..(height - 1) : screen'[i - k] = screen[i]
    /\ \A i \in (height - k)..(height - 1) :
          \A j \in 0..(width - 1) : screen'[i][j] = None

\* A line feed executed with the cursor on the bottom row.
LineFeedAtBottom ==
    /\ state \in {"ground", "escape", "control_sequence"}
    /\ unit' = LF_ /\ row = height - 1

\* C7: on an h-row screen a full-screen scroll up by k, 0 < k < h (SU k, or a
\* line feed on the bottom row for each of k rows), appends the original top k
\* rows to the history in top-to-bottom order, moves row i to row i - k for
\* k <= i < h and leaves the bottom k rows empty.
ScrollUpKeepsOrder ==
    [][ /\ (DispatchesNumeric(83) /\ Arg(collected, 1) < height)
              => ScrolledUp(Arg(collected, 1))
        /\ (LineFeedAtBottom /\ 1 < height) => ScrolledUp(1) ]_vars

\* SU 2 on a full screen of three rows.
ScrolledUpByTwo ==
    /\ unit = 83 /\ collected = <<50, 83>> /\ height = 3
    /\ prev_state = "control_sequence" /\ state = "ground"
    /\ Len(history) = 2
    /\ history[1][0] = Character(97, {}) /\ history[2][0] = Character(98, {})
    /\ screen[0][0] = Character(99, {})
    /\ screen[1][0] = None /\ screen[2][0] = None

\* SU n with n > height is dispatched.
DispatchesScrollPastHeight ==
    DispatchesNumeric(83) /\ Arg(collected, 1) > height

ScreenEmptied == \A i \in 0..(height - 1) : \A j \in 0..(width - 1) : screen'[i][j] = None

\* k blank rows.
BlankRows(k) == [i \in 1..k |-> [j \in 0..(width - 1) |-> None]]

\* The rows of the screen from top to bottom.
ScreenRows == [i \in 1..height |-> screen[i - 1]]

\* C8 as stated: a full-screen scroll up by n > height appends exactly n rows
\* to the history, the n - height blank rows before the height real rows, and
\* leaves the whole screen empty.
ScrollPastHeightBlanksFirst ==
    [][DispatchesScrollPastHeight =>
          /\ history' = history \o BlankRows(Arg(collected, 1) - height) \o ScreenRows
          /\ ScreenEmptied]_vars

\* C8: a full-screen scroll up by n > height appends exactly n rows to the
\* history, the height real rows in top-to-bottom order followed by the
\* n - height blank rows, and leaves the whole screen empty.
ScrollPastHeightRowsFirst ==
    [][DispatchesScrollPastHeight =>
          /\ Len(history') = Len(history) + Arg(collected, 1)
          /\ history' = history \o ScreenRows \o BlankRows(Arg(collected, 1) - height)
          /\ ScreenEmptied]_vars

\* SU height + 2 on a full screen of at least two rows.
ScrolledPastHeight ==
    /\ unit = 83 /\ collected = Append(StrOf(height + 2), 83)
    /\ prev_state = "control_sequence" /\ state = "ground" /\ height >= 2
    /\ Len(history) = height + 2
    /\ history[1][0] = Character(97, {}) /\ history[2][0] = Character(98, {})
    /\ history[height + 1][0] = None /\ history[height + 2][0] = None
    /\ \A i \in 0..(height - 1) : screen[i][0] = None

\* The bytes s collected before the final byte are parameter bytes followed
\* by intermediate bytes.
WellFormed(s) ==
    \E np \in 0..Len(s) :
        /\ \A i \in 1..np : IsParamByte(s[i])
        /\ \A i \in (np + 1)..Len(s) : IsIntermediateByte(s[i])

\* s holds a parameter byte that is neither a digit nor ';'  (: < = > ?).
HasNonNumericParam(s) == \E i \in 1..Len(s) : s[i] \in {58, 60, 61, 62, 63}

\* The step dispatches a control sequence that does not match the grammar or
\* whose parameter string is not numeric.
DispatchesInvalid ==
    /\ state = "control_sequence" /\ unit' >= 64 /\ unit' < 127
    /\ ~WellFormed(collected) \/ HasNonNumericParam(collected)

FrameUnchanged ==
    /\ row' = row /\ col' = col /\ screen' = screen /\ attr' = attr
    /\ tabstops' = tabstops /\ history' = history

\* The step outputs a printable character right after a control sequence,
\* the cursor being on the screen.
OutputsAfterControlSequence ==
    /\ state = "ground" /\ prev_state = "control_sequence"
    /\ unit' >= 32 /\ col < width

\* C9: a control sequence that does not match the grammar (ESC [ - 1 m), or
\* whose handler rejects a non-numeric parameter, leaves cursor, screen cells,
\* attributes, tab stops and history as they were and returns the parser to
\* ground; the next printable character is written at the unchanged cursor.
InvalidSequenceChangesNothing ==
    [][ /\ DispatchesInvalid
              => FrameUnchanged /\ state' = "ground" /\ raised' = "none"
        /\ OutputsAfterControlSequence
              => /\ screen'[row][col] = Character(unit', attr)
                 /\ row' = row /\ col' = col + 1 ]_vars

\* ESC [ - 1 m, then x written at the cursor.
WroteAfterInvalidSequence ==
    /\ unit = 120 /\ collected = <<45, 49, 109>>
    /\ state = "ground" /\ prev_state = "ground"
    /\ col > 0 /\ screen[row][col - 1] = Character(120, attr)

\* The control-sequence handlers that have a body.
ImplementedControls ==
    {"CUU", "CUD", "CUF", "CUB", "CNL", "CPL", "CHA", "CUP", "CHT", "ED", "EL",
     "IL", "DL", "DCH", "SU", "SD", "ECH", "CBT", "HPA", "HPR", "REP", "VPA",
     "VPR", "HVP", "TBC", "HPB", "VPB", "SGR"}

\* The escape-sequence handlers that have a body.
ImplementedEscapes ==
    {"IND", "NEL", "HTS", "RI", "DCS", "SOS", "CSI", "ST", "OSC", "PM", "APC"}

\* The key of the control sequence s final: the intermediates and the final.
KeyOf(s, final) == Append(SubSeq(s, LeadParams(s, 1) + 1, Len(s)), final)

\* The step dispatches a well-formed control sequence whose key has a stub
\* handler or no handler.
DispatchesStubControl ==
    /\ state = "control_sequence" /\ unit' >= 64 /\ unit' < 127
    /\ WellFormed(collected)
    /\ control_sequences(KeyOf(collected, unit')) \notin ImplementedControls

\* The step dispatches an escape sequence whose final byte has a stub handler
\* (ESC 7, ESC 8, ...).
DispatchesStubEscape ==
    /\ state = "escape" /\ unit' >= 48 /\ unit' < 127
    /\ escape_sequences(<<unit'>>) \notin (ImplementedEscapes \cup {"None"})

\* C10: dispatching a registered but stubbed command (CSI @, CSI r, CSI h/l,
\* CSI s/u, ESC 7/8) or a control-sequence key with no handler changes
\* nothing but the parser state, which returns to ground.
StubChangesNothing ==
    [][(DispatchesStubControl \/ DispatchesStubEscape)
          => FrameUnchanged /\ state' = "ground" /\ raised' = "none"]_vars

\* ESC [ 1 ; 2 r dispatched away from the home position on a written screen.
StubDispatched ==
    /\ unit = 114 /\ collected = <<49, 59, 50, 114>>
    /\ state = "ground" /\ prev_state = "control_sequence"
    /\ col > 0 /\ screen[0][0] # None


\* The step dispatches ESC [ m or ESC [ 0 m.
DispatchesReset ==
    state = "control_sequence" /\ unit' = 109 /\ collected \in {<<>>, <<48>>}

\* The step outputs a printable character right after ESC [ m or ESC [ 0 m.
OutputsAfterReset ==
    /\ state = "ground" /\ prev_state = "control_sequence"
    /\ collected \in {<<109>>, <<48, 109>>}
    /\ unit' >= 32

\* C11: whatever the attributes are, ESC [ 0 m (or ESC [ m) followed
\* immediately by a printable character writes a cell whose attribute map is
\* empty.
ResetThenOutputIsPlain ==
    [][ /\ DispatchesReset => attr' = {} /\ state' = "ground" /\ raised' = "none"
        /\ OutputsAfterReset
              => /\ col' > 0
                 /\ screen'[row'][col' - 1] = Character(unit', {}) ]_vars

\* x written plain right after ESC [ 0 m, next to a cell written underlined
\* and red.
PlainAfterColoured ==
    /\ unit = 120 /\ collected = <<48, 109>> /\ prev_state = "ground"
    /\ row = 0 /\ col = 3
    /\ screen[0][1] = Character(98, {<<"underline", "single">>, <<"fg_color", "red">>})
    /\ screen[0][2] = Character(120, {})


\* '%02x' % v
HexDigit(d) ==
    CASE d = 0 -> "0" [] d = 1 -> "1" [] d = 2 -> "2" [] d = 3 -> "3"
      [] d = 4 -> "4" [] d = 5 -> "5" [] d = 6 -> "6" [] d = 7 -> "7"
      [] d = 8 -> "8" [] d = 9 -> "9" [] d = 10 -> "a" [] d = 11 -> "b"
      [] d = 12 -> "c" [] d = 13 -> "d" [] d = 14 -> "e" [] d = 15 -> "f"

Hex2(v) == HexDigit(v \div 16) \o HexDigit(v % 16)

\* '#%02x%02x%02x' % (r, g, b)
HexColour(r, g, b) == "#" \o Hex2(r) \o Hex2(g) \o Hex2(b)

\* The 16-colour table of the 256-colour extension.
SixteenColours ==
    << "#000000", "#cd0000", "#00cd00", "#cdcd00", "#0000e8", "#cd00cd",
       "#00cdcd", "#e5e5e5", "#7f7f7f", "#ff0000", "#00ff00", "#ffff00",
       "#5c5cff", "#ff00ff", "#00ffff", "#ffffff" >>

\* One component of the 6 x 6 x 6 cube.
CubeLevel(v) == IF v = 0 THEN 0 ELSE v * 40 + 55

\* The colour of index o: table, cube, gray ramp.
Xterm256(o) ==
    IF o < 16 THEN SixteenColours[o + 1]
    ELSE IF o < 232
    THEN HexColour(CubeLevel((o - 16) \div 36), CubeLevel(((o - 16) % 36) \div 6),
                   CubeLevel((o - 16) % 6))
    ELSE HexColour((o - 232) * 10 + 8, (o - 232) * 10 + 8, (o - 232) * 10 + 8)

\* The parameter string s is 38;5;N or 48;5;N with N < 256.
IsExtendedColour(s) ==
    /\ NumericParams(s)
    /\ Len(param_list(s, 0, TRUE, 1).l) = 3
    /\ param_list(s, 0, TRUE, 1).l[1] \in {38, 48}
    /\ param_list(s, 0, TRUE, 1).l[2] = 5
    /\ param_list(s, 0, TRUE, 1).l[3] < 256

ExtendedColourKey(s) ==
    IF param_list(s, 0, TRUE, 1).l[1] = 38 THEN "fg_color" ELSE "bg_color"

\* C12 as stated: SGR 38;5;N / 48;5;N sets fg_color / bg_color to the table
\* entry (N < 16), the cube value (16 <= N < 232) or the gray ramp value
\* (N >= 232), consuming the two following list elements; ESC [ 38;5;196 m
\* followed by X writes a cell whose fg_color is #ff0000.
ExtendedColourIsSet ==
    [][ /\ (state = "control_sequence" /\ unit' = 109 /\ IsExtendedColour(collected))
              => /\ raised' = "none" /\ state' = "ground"
                 /\ attr' = set_attr(attr, ExtendedColourKey(collected),
                                     Xterm256(param_list(collected, 0, TRUE, 1).l[3]))
        /\ (unit' = 88 /\ collected = <<51, 56, 59, 53, 59, 49, 57, 54>>)
              => /\ state' = "ground" /\ col' > 0
                 /\ screen'[row'][col' - 1] # None
                 /\ <<"fg_color", "#ff0000">> \in screen'[row'][col' - 1].attr ]_vars


\* C13: a cell's attribute map is fixed when output writes it (a copy of the
\* current map); an SGR sequence, whatever its parameters, changes only the
\* current attributes and no cell of the screen or of the history.
WrittenAttributesAreFixed ==
    [][ /\ (state = "control_sequence" /\ unit' = 109)
              => /\ screen' = screen /\ history' = history
                 /\ row' = row /\ col' = col /\ tabstops' = tabstops
        /\ (state = "ground" /\ unit' >= 32)
              => /\ attr' = attr /\ col' > 0
                 /\ screen'[row'][col' - 1] = Character(unit', attr) ]_vars

\* ESC [ 0 m dispatched with bold cells on the screen and in the history.
ResetAfterBoldCells ==
    /\ unit = 109 /\ state = "ground" /\ prev_state = "control_sequence"
    /\ collected = <<48, 109>> /\ attr = {}
    /\ Len(history) = 1
    /\ history[1][0] = Character(97, {<<"weight", "bold">>})
    /\ screen[0][1] = Character(120, {<<"weight", "bold">>})


\* C14: for every input s and every split s = s1 + s2, also in the middle of
\* an escape, control or control-string sequence, parse(s1) followed by
\* parse(s2) leaves the terminal (parser state, collected, cursor, screen,
\* attributes, tab stops, history) as parse(s) does; when parse(s1) raises,
\* parse(s) raises at the same unit with the same terminal.
SplitEqualsWhole ==
    /\ budget = -2 => Term = parse(NewTerminal(height, width), input)
    /\ (budget = -1 /\ raised # "none")
          => Term = parse(NewTerminal(height, width), input \o pending)

\* ESC [ 2 A after a line feed, split between the parameter and the final
\* byte: the second call has dispatched CUU 2.
SplitInsideControlSequence ==
    /\ budget = -2 /\ raised = "none"
    /\ input = <<LF_, ESC_, 91, 50, 65>> /\ pending = <<65>>
    /\ collected = <<50, 65>> /\ state = "ground" /\ row = 0
    /\ prev_state = "control_sequence"


\* The step executes HT with the tab stops of a new terminal.
ExecutesTab ==
    /\ state \in {"ground", "escape", "control_sequence"} /\ unit' = HT_
    /\ tabstops = [i \in 0..(width - 1) |-> (i % TabInterval) = 0]

\* 8 * ceil((c + 1) / 8) clamped to width - 1.
NextTabColumn(c) == Min(TabInterval * ((c + TabInterval) \div TabInterval), width - 1)

\* C15 as stated: with the default tab stops, HT at column c moves the cursor
\* to min(8 * ceil((c + 1) / 8), width - 1) for every reachable column c,
\* leaves the row unchanged and modifies no cell.
TabFromEveryColumn ==
    [][ExecutesTab =>
          col' = NextTabColumn(col) /\ row' = row /\ screen' = screen]_vars

\* C15: with the default tab stops, HT at column c < width moves the cursor to
\* min(8 * ceil((c + 1) / 8), width - 1); at the pending-wrap column
\* c = width the cursor stays at width; the row is unchanged and no cell is
\* modified.
TabFromScreenColumn ==
    [][ExecutesTab =>
          /\ col' = (IF col < width THEN NextTabColumn(col) ELSE width)
          /\ row' = row /\ screen' = screen /\ history' = history]_vars

\* HT has moved the cursor from column 1..7 to the stop at column 8, which is
\* not the last column.
TabbedToStop ==
    /\ unit = HT_ /\ state = "ground" /\ col = TabInterval /\ width > TabInterval + 1
    /\ collected \in { Append(StrOf(n), 71) : n \in 2..TabInterval }


\* The control-string state that ESC f enters.
StringStateOf(f) ==
    CASE f = 93 -> "osc" [] f = 80 -> "dcs" [] f = 88 -> "sos"
      [] f = 94 -> "pm" [] f = 95 -> "apc"

\* The last byte collected is ESC.
EscapePending == collected # <<>> /\ collected[Len(collected)] = ESC_

\* The unit ends the control string of state st.
EndsString(st, c) ==
    \/ c \in {CAN_, SUB_}
    \/ st = "osc" /\ c = BEL_
    \/ EscapePending

\* What a unit does in the control-string state st: a terminator returns the
\* parser to ground, any other byte is consumed; the screen is not touched.
StringStep(st) ==
    /\ raised' = "none"
    /\ IF EndsString(st, unit')
       THEN state' = "ground"
       ELSE state' = st /\ collected' = Append(collected, unit')
    /\ FrameUnchanged

\* C16 as stated: ESC ], ESC P, ESC X, ESC ^ and ESC _ enter osc, dcs, sos, pm
\* and apc; there bytes are consumed until CAN or SUB (abort), BEL in osc
\* (finish), or ESC followed by one more byte (finish if it is '\', abort
\* otherwise), each of which returns the parser to ground.
ControlStringsEnd ==
    [][ /\ (state = "escape" /\ unit' \in {93, 80, 88, 94, 95})
              => state' = StringStateOf(unit') /\ raised' = "none"
        /\ \A st \in {"osc", "dcs", "sos", "pm", "apc"} :
              state = st => StringStep(st) ]_vars

\* The same rules for the four states that have a parse handler.
HandledStringsEnd ==
    [][ \A st \in {"osc", "sos", "pm", "apc"} : state = st => StringStep(st) ]_vars


CursorUnmoved == row' = row /\ col' = col

EmptyRow(r) == \A j \in 0..(width - 1) : screen'[r][j] = None

\* C17 as stated: IL with the cursor at row r inserts n blank rows at row r:
\* rows above r are unchanged, the rows from r on are shifted down by n (rows
\* pushed past the bottom are lost), the cursor does not move and nothing is
\* appended to the history.
InsertLinesAtCursor ==
    [][DispatchesNumeric(76) =>
          /\ raised' = "none"
          /\ \A i \in 0..(height - 1) :
                IF i < row THEN screen'[i] = screen[i]
                ELSE IF i < row + Arg(collected, 1) THEN EmptyRow(i)
                ELSE screen'[i] = screen[i - Arg(collected, 1)]
          /\ CursorUnmoved
          /\ history' = history]_vars

\* C18 as stated: DL with the cursor at row r and n >= 1 deletes rows from r:
\* rows above r are unchanged, rows below move up by min(n, height - r), the
\* vacated bottom rows become empty, the cursor does not move and nothing is
\* appended to the history, also when r = 0 and when n > height - r.
DeleteLinesAtCursor ==
    [][DispatchesNumeric(77) =>
          /\ raised' = "none"
          /\ \A i \in 0..(height - 1) :
                IF i < row THEN screen'[i] = screen[i]
                ELSE IF i + Min(Arg(collected, 1), height - row) < height
                THEN screen'[i] = screen[i + Min(Arg(collected, 1), height - row)]
                ELSE EmptyRow(i)
          /\ CursorUnmoved
          /\ history' = history]_vars

\* C19 as stated: DCH with the cursor at (r, c) and n >= 1 moves the cells of
\* row r at columns c + n .. left by n, empties the vacated right-edge cells
\* and changes no cell of row r at a column < c, no cell of another row, and
\* not the cursor, also when n > width - c.
DeleteCharactersAtCursor ==
    [][DispatchesNumeric(80) =>
          /\ raised' = "none"
          /\ \A j \in 0..(width - 1) :
                IF j < col THEN screen'[row][j] = screen[row][j]
                ELSE IF j + Arg(collected, 1) < width
                THEN screen'[row][j] = screen[row][j + Arg(collected, 1)]
                ELSE screen'[row][j] = None
          /\ \A i \in 0..(height - 1) : i # row => screen'[i] = screen[i]
          /\ CursorUnmoved
          /\ history' = history]_vars


\* The first parameter of ED and EL (default 0).
EraseArg(s) == param_list(s, 0, TRUE, 1).l[1]

\* The cells of row i that Ps = n designates on the cursor's row: 0 from the
\* cursor cell to the end of the line, 1 from the start of the line through
\* the cursor cell, 2 the whole line.
InLinePart(n, j) ==
    CASE n = 0 -> j >= col
      [] n = 1 -> j <= col
      [] n = 2 -> TRUE

\* The cells ED designates: the line part, and the rows below (0), above (1)
\* or all rows (2).
InDisplayPart(n, i, j) ==
    CASE n = 0 -> i > row \/ (i = row /\ j >= col)
      [] n = 1 -> i < row \/ (i = row /\ j <= col)
      [] n = 2 -> TRUE

\* Cell (i, j) is emptied if designated (e) and otherwise keeps its content.
CellErasedIff(i, j, e) ==
    screen'[i][j] = (IF e THEN None ELSE screen[i][j])

ErasesDisplay(n) ==
    \A i \in 0..(height - 1) : \A j \in 0..(width - 1) :
        CellErasedIff(i, j, InDisplayPart(n, i, j))

ErasesLine(n) ==
    \A i \in 0..(height - 1) : \A j \in 0..(width - 1) :
        CellErasedIff(i, j, i = row /\ InLinePart(n, j))

ErasesCharacters(n) ==
    \A i \in 0..(height - 1) : \A j \in 0..(width - 1) :
        CellErasedIff(i, j, i = row /\ j >= col /\ j < col + n)

\* C20: ED and EL empty exactly the designated cells (0 or omitted: cursor
\* cell to end of line, ED also the rows below; 1: start of line through the
\* cursor cell, ED also the rows above; 2: the whole line, ED the whole
\* screen); ECH n empties the n cells starting at the cursor; none of them
\* moves the cursor or changes the history.
ErasesExactly ==
    [][ /\ (DispatchesNumeric(74) /\ EraseArg(collected) \in 0..2)
              => ErasesDisplay(EraseArg(collected))
        /\ (DispatchesNumeric(75) /\ EraseArg(collected) \in 0..2)
              => ErasesLine(EraseArg(collected))
        /\ DispatchesNumeric(88) => ErasesCharacters(Arg(collected, 1))
        /\ (DispatchesNumeric(74) \/ DispatchesNumeric(75) \/ DispatchesNumeric(88))
              => CursorUnmoved /\ history' = history /\ raised' = "none" ]_vars

\* ESC [ 1 J dispatched with the cursor at (1, 1) of a full screen of three
\* rows.
ErasedAbove ==
    /\ unit = 74 /\ collected = <<49, 74>> /\ state = "ground"
    /\ prev_state = "control_sequence"
    /\ height = 3 /\ row = 1 /\ col = 1
    /\ screen[0][0] = None /\ screen[1][0] = None /\ screen[1][1] = None
    /\ screen[1][2] # None /\ screen[2][0] # None


---------------------------------------------------------------------------
(* Sequence framing.  In a sequence session input is the transcript of the *)
(* bytes handed to parse_single before the step, unit' the byte of the     *)
(* step.                                                                   *)

\* The step dispatches an escape sequence: a byte 0x30..0x7e in state escape.
DispatchesEscape == state = "escape" /\ unit' >= 48 /\ unit' < 127

\* The step dispatches a control sequence: a byte 0x40..0x7e in state
\* control_sequence.
DispatchesControl == state = "control_sequence" /\ unit' >= 64 /\ unit' < 127

\* C21: an escape sequence whose collected intermediates and final byte form
\* a key that is not registered (ESC # D) is a no-op that only returns the
\* parser to ground: cursor, screen, tab stops and history are unchanged.
UnregisteredEscapeIsNoOp ==
    [][(/\ DispatchesEscape /\ collected # <<>>
        /\ escape_sequences(Append(collected, unit')) = "None")
          => FrameUnchanged /\ state' = "ground" /\ raised' = "none"]_vars

\* The index of the last ESC in s, or 0.
LastEscape(s) ==
    IF \E i \in 1..Len(s) : s[i] = ESC_
    THEN CHOOSE i \in 1..Len(s) : s[i] = ESC_ /\ \A j \in (i + 1)..Len(s) : s[j] # ESC_
    ELSE 0

\* The bytes of s received after the most recent ESC.
SinceEscape(s) == SubSeq(s, LastEscape(s) + 1, Len(s))

\* The bytes of s received after the most recent CSI introducer: the first
\* byte of the final range 0x30..0x7e after the most recent ESC.
SinceIntroducer(s) ==
    LET e == SinceEscape(s)
        k == CHOOSE i \in 1..(Len(e) + 1) :
                 /\ i <= Len(e) => e[i] >= 48
                 /\ \A j \in 1..(i - 1) : e[j] < 48
    IN SubSeq(e, k + 1, Len(e))

IsCollectable(b) == b >= 32 /\ b < 127

\* C22: when an escape or control sequence is dispatched, collected holds
\* only bytes received since the most recent ESC (escape sequence) or since
\* the most recent CSI introducer (control sequence): the collectable bytes
\* of the current sequence and no byte of an earlier, abandoned one.
CollectedIsCurrentSequence ==
    [][ /\ DispatchesEscape
            => collected = SelectSeq(SinceEscape(input), IsCollectable)
        /\ DispatchesControl
            => collected = SelectSeq(SinceIntroducer(input), IsCollectable) ]_vars

\* The control-sequence half of C22, which the code satisfies.
ControlCollectedIsCurrentSequence ==
    [][DispatchesControl
          => collected = SelectSeq(SinceIntroducer(input), IsCollectable)]_vars

\* The step outputs a printable character right after a sequence was
\* abandoned by CAN or SUB, the cursor being on the screen.
OutputsAfterAbandon ==
    /\ state = "ground" /\ prev_state \in {"escape", "control_sequence"}
    /\ unit \in {CAN_, SUB_} /\ unit' >= 32 /\ unit' < 127 /\ col < width

\* C28: in the escape and control_sequence states CAN or SUB abandons the
\* sequence: the parser returns to ground, nothing is dispatched, and cursor,
\* screen, attributes, tab stops and history are unchanged; the next byte is
\* processed as ground input (a printable character is written at the
\* cursor).
CancelAbandonsSequence ==
    [][ /\ (state \in {"escape", "control_sequence"} /\ unit' \in {CAN_, SUB_})
            => FrameUnchanged /\ state' = "ground" /\ raised' = "none"
        /\ OutputsAfterAbandon
            => /\ screen'[row][col] = Character(unit', attr)
               /\ row' = row /\ col' = col + 1 /\ state' = "ground" ]_vars

\* ESC [ 2 CAN A: the control sequence was abandoned and A was written at
\* the cursor, which stayed on the bottom row.
WroteAfterCancel ==
    /\ input = Repeat(LF_, height - 1) \o <<97, ESC_, 91, 50, CAN_, 65>>
    /\ state = "ground" /\ row = height - 1 /\ col = 2
    /\ screen[row][1] = Character(65, {}) /\ screen[row][0] = Character(97, {})
    /\ history = <<>>

\* C29: an ESC received in the control_sequence state discards the partial
\* control sequence: the sequence dispatched afterwards takes its parameters
\* from the bytes received since its own introducer only (ESC [ 2 ESC [ A
\* moves the cursor up by 1, not 2).
EscapeRestartsSequence ==
    [][\A f \in {65, 68} :
          (DispatchesControl /\ unit' = f /\ NumericParams(SinceIntroducer(input)))
             => /\ <<row', col'>> =
                       MotionTarget(f, Arg(SinceIntroducer(input), 1), 1,
                                    row, col, height, width)
                /\ screen' = screen /\ history' = history
                /\ state' = "ground" /\ raised' = "none"]_vars

\* ESC [ 2 ESC [ A fed with the cursor on the bottom row of a screen of at
\* least three rows: the cursor is one row higher.
RestartedSequenceMovedUpOne ==
    /\ input = Repeat(LF_, height - 1) \o <<97, ESC_, 91, 50, ESC_, 91, 65>>
    /\ height >= 3
    /\ state = "ground" /\ row = height - 2 /\ col = 1 /\ collected = <<65>>


---------------------------------------------------------------------------
(* Rendering.  After the caller's to_string call, request holds its        *)
(* arguments and rendered what it returned; the terminal is unchanged.     *)

\* The rows the call was asked to render: the history, oldest first, then
\* the rows of the screen.
RequestedRows ==
    (IF request.history THEN history ELSE <<>>)
    \o (IF request.screen THEN [k \in 1..height |-> screen[k - 1]] ELSE <<>>)

\* The number of cells of a row up to its last written cell.
ShownLength(r) ==
    IF \E j \in DOMAIN r : r[j] # None
    THEN 1 + CHOOSE j \in DOMAIN r : r[j] # None /\ \A m \in DOMAIN r : m > j => r[m] = None
    ELSE 0

\* The number of rows up to the last row with a written cell.
ShownRows(rows) ==
    IF \E k \in 1..Len(rows) : ShownLength(rows[k]) > 0
    THEN CHOOSE k \in 1..Len(rows) :
             /\ ShownLength(rows[k]) > 0
             /\ \A m \in (k + 1)..Len(rows) : ShownLength(rows[m]) = 0
    ELSE 0

\* The lines to show: all rows, or with trimming the rows up to the last
\* non-empty one.
LinesShown ==
    IF request.remove_blank_end THEN ShownRows(RequestedRows) ELSE Len(RequestedRows)

\* The text of the first n rows: each row up to its last written cell, an
\* empty cell shown as a space, each line ended by a line feed.
RECURSIVE TextOf(_, _)
TextOf(rows, n) ==
    IF n = 0 THEN <<>>
    ELSE TextOf(rows, n - 1)
         \o [j \in 1..ShownLength(rows[n]) |->
               Chr(IF rows[n][j - 1] = None THEN 32 ELSE rows[n][j - 1].char)]
         \o <<Chr(LF_)>>

\* The cells behind the text of the first n rows (None for an empty cell and
\* for the line feed), and their attribute maps.
RECURSIVE CellsOf(_, _)
CellsOf(rows, n) ==
    IF n = 0 THEN <<>>
    ELSE CellsOf(rows, n - 1)
         \o [j \in 1..ShownLength(rows[n]) |-> rows[n][j - 1]]
         \o <<None>>

IsChr(tok) == "char" \in DOMAIN tok
IsSpanOpen(tok) == "span" \in DOMAIN tok
IsSpanClose(tok) == "close" \in DOMAIN tok

\* The position in s of its n-th character token.
CharPosition(s, n) ==
    CHOOSE i \in 1..Len(s) :
        IsChr(s[i]) /\ Cardinality({j \in 1..i : IsChr(s[j])}) = n

\* Token i of s lies between a <span> and its </span>.
InSpan(s, i) ==
    \E j \in 1..(i - 1) :
        IsSpanOpen(s[j]) /\ \A m \in (j + 1)..(i - 1) : ~IsSpanClose(s[m])

\* C23: the rendered lines are the history, oldest first, followed by the
\* screen rows; in each line trailing empty cells are removed and interior
\* empty cells become a space with no attributes; with trimming only the
\* empty lines at the end of the whole sequence are removed, every empty
\* line followed by a non-empty line being kept.
RenderedLines ==
    (request.format_line # "None" /\ RequestedRows # <<>> /\ raised = "none")
       => /\ SelectSeq(rendered, IsChr) = TextOf(RequestedRows, LinesShown)
          /\ request.format_line = "text" => rendered = TextOf(RequestedRows, LinesShown)
          /\ \A n \in 1..Len(CellsOf(RequestedRows, LinesShown)) :
                CellsOf(RequestedRows, LinesShown)[n] = None
                   => ~InSpan(rendered, CharPosition(rendered, n))

\* A row and an empty row in the history, then a screen row with an empty
\* cell before a bold x, rendered as html with trimming: "x", "",
\* " <span>x</span>".
RenderedInteriorBlanks ==
    /\ request = [history |-> TRUE, screen |-> TRUE, remove_blank_end |-> TRUE,
                  format_line |-> "html"]
    /\ raised = "none" /\ height = 1 /\ Len(history) = 2
    /\ history[1][0] # None /\ history[2] = BlankRow(width)
    /\ screen[0][0] = None /\ screen[0][1] = Character(120, {<<"weight", "bold">>})
    /\ rendered = <<Chr(120), Chr(LF_), Chr(LF_), Chr(32),
                    SpanOpen({<<"font-weight", "bold">>}), Chr(120), SpanClose,
                    Chr(LF_)>>


\* C27: html rendering never fails on an attribute key or value without a
\* markup mapping (inverse, frame, weight=faint, style=fraktur): the unmapped
\* attribute is dropped, the characters and the remaining attributes are
\* still rendered, and every span is closed before the line terminator.
HtmlRenderingNeverFails ==
    request.format_line = "html"
       => /\ raised = "none"
          /\ RequestedRows # <<>>
                => /\ SelectSeq(rendered, IsChr) = TextOf(RequestedRows, LinesShown)
                   /\ \A i \in 1..Len(rendered) :
                         rendered[i] = Chr(LF_) => ~InSpan(rendered, i)
                   /\ \A n \in 1..Len(CellsOf(RequestedRows, LinesShown)) :
                         LET c == CellsOf(RequestedRows, LinesShown)[n]
                         IN (c # None /\ \E p \in c.attr : ~Unmapped(p))
                               => InSpan(rendered, CharPosition(rendered, n))

\* The part of C27 that holds: when no written cell carries an unmapped
\* attribute, html rendering succeeds.
MappedHtmlRenders ==
    (/\ request.format_line = "html"
     /\ \A k \in 1..Len(RequestedRows) : \A j \in DOMAIN RequestedRows[k] :
           RequestedRows[k][j] # None
              => \A p \in RequestedRows[k][j].attr : ~Unmapped(p))
       => raised = "none"


---------------------------------------------------------------------------
(* SGR parameter lists.                                                    *)

\* The list of SGR codes of the parameter string s (default 0).
CodesOf(s) == param_list(s, 0, TRUE, 1).l

\* The step dispatches SGR with a numeric parameter string.
DispatchesSGR ==
    state = "control_sequence" /\ unit' = 109 /\ NumericParams(collected)

\* The effect of one simple code on an attribute map: reset, set, clear, or
\* nothing for a code the table does not hold.
SimpleEffect(a, n) ==
    IF n = 0 THEN {}
    ELSE IF SGRSet(n) # <<>> THEN {p \in a : p[1] # SGRSet(n)[1]} \cup {SGRSet(n)}
    ELSE IF SGRClear(n) # "" THEN {p \in a : p[1] # SGRClear(n)}
    ELSE a

\* The effects of the codes of l, applied from left to right.
RECURSIVE FoldCodes(_, _)
FoldCodes(a, l) ==
    IF l = <<>> THEN a ELSE FoldCodes(SimpleEffect(a, Head(l)), Tail(l))

\* l ends with a malformed 256-colour sub-sequence that starts at element i:
\* 38 or 48 followed by fewer than two elements, or by a middle value other
\* than 5 and one more element; no 38 or 48 comes before it.
EndsMalformedAt(l, i) ==
    /\ i \in 1..Len(l) /\ l[i] \in {38, 48}
    /\ \A j \in 1..(i - 1) : l[j] \notin {38, 48}
    /\ \/ Len(l) < i + 2
       \/ Len(l) = i + 2 /\ l[i + 1] # 5

\* C24: an SGR list with a malformed 256-colour sub-sequence completes
\* without error, sets no fg_color / bg_color from that sub-sequence and
\* leaves the attributes set before it, those of the earlier elements of the
\* same list included (the bold of ESC [ 1 ; 38 m), intact.
MalformedColourIsSkipped ==
    [][\A i \in 1..4 :
          (DispatchesSGR /\ EndsMalformedAt(CodesOf(collected), i))
             => /\ raised' = "none" /\ state' = "ground"
                /\ attr' = FoldCodes(attr, SubSeq(CodesOf(collected), 1, i - 1))]_vars

\* C25: SGR applies its parameter list from left to right to the live
\* attribute map: ESC [ 1 ; 0 m ends with an empty map, ESC [ 0 ; 1 m with
\* exactly weight=bold, and for a list of simple codes the final map is the
\* sequential fold of the per-code effects.
AppliedLeftToRight ==
    [][(DispatchesSGR /\ \A k \in 1..Len(CodesOf(collected)) :
                            CodesOf(collected)[k] \notin {38, 48})
          => /\ attr' = FoldCodes(attr, CodesOf(collected))
             /\ collected = <<49, 59, 48>> => attr' = {}
             /\ collected = <<48, 59, 49>> => attr' = {<<"weight", "bold">>}
             /\ raised' = "none" /\ state' = "ground"]_vars

\* ESC [ 0 ; 1 m dispatched right after underlined red text was written:
\* only bold is left.
ResetThenBold ==
    /\ collected = <<48, 59, 49, 109>> /\ state = "ground" /\ unit = 109
    /\ budget = MaxSGRWords - 1 /\ pending = <<>>
    /\ screen[0][1] = Character(98, {<<"underline", "single">>, <<"fg_color", "red">>})
    /\ attr = {<<"weight", "bold">>}


---------------------------------------------------------------------------
(* Default parameters.                                                     *)

\* The step leaves the terminal as t is, the collected bytes aside.
SameOutcomeAs(t) ==
    /\ row' = t.row /\ col' = t.col /\ screen' = t.screen
    /\ history' = t.history /\ tabstops' = t.tabstops /\ attr' = t.attr
    /\ state' = t.state /\ raised' = t.raised

\* What the step would do if the bytes collected were s.
WithParameters(s) == parse_single([Term EXCEPT !.collected = s], unit')

\* CUP parameter strings with an empty, zero or missing parameter, and the
\* same with every such parameter written as 1.
CUPForms ==
    { <<<<>>, P2_(1, 1)>>, <<P_(0), P2_(1, 1)>>, <<<<59>>, P2_(1, 1)>>,
      <<P2_(0, 0), P2_(1, 1)>>, <<P_(2), P2_(2, 1)>>, <<<<50, 59>>, P2_(2, 1)>>,
      <<P2_(2, 0), P2_(2, 1)>>, <<<<59, 50>>, P2_(1, 2)>>, <<P2_(0, 2), P2_(1, 2)>> }

\* C26: for the counted commands (CUU, CUD, CUF, CUB, CHA, VPA, CUP, SU, SD,
\* DL, DCH, ECH, CHT, CBT) an omitted or empty parameter and the parameter 0
\* behave as the parameter 1; a CUP with fewer than two parameters uses 1
\* for each missing one.
ZeroAndEmptyMeanOne ==
    [][ /\ (state = "control_sequence" /\ unit' \in CountedFinals
            /\ collected \in {<<>>, <<48>>})
              => SameOutcomeAs(WithParameters(<<49>>))
        /\ \A fm \in CUPForms :
              (state = "control_sequence" /\ unit' = 72 /\ collected = fm[1])
                 => SameOutcomeAs(WithParameters(fm[2])) ]_vars

\* ESC [ 0 A dispatched with the cursor on the bottom row of the two-row
\* screen, after one character was written there: the cursor moved up one
\* row.
ZeroMovedUpOne ==
    /\ collected = <<48, 65>> /\ unit = 65 /\ state = "ground"
    /\ budget = MaxCountWords - 1 /\ pending = <<>>
    /\ height = 2 /\ row = 0 /\ col = 1
    /\ screen[1][0] = Character(97, {}) /\ history = <<>>


---------------------------------------------------------------------------
(* Scrolling at the bottom row.                                            *)

\* The old top row is appended to the history, every other row moves up by
\* one and the bottom row is as given.
ScrolledOneRow(bottom) ==
    /\ history' = Append(history, screen[0])
    /\ \A i \in 1..(height - 1) : screen'[i - 1] = screen[i]
    /\ screen'[height - 1] = bottom

\* ESC D dispatched with the cursor on the bottom row.
IndexAtBottom == state = "escape" /\ unit' = 68 /\ row = height - 1

\* C30: a printable character output at the pending-wrap position of the
\* bottom row appends exactly one row, the old top row, to the history, moves
\* all rows up by one, stores the character at (height-1, 0) and leaves the
\* cursor at (height-1, 1); LF / IND on the bottom row likewise append
\* exactly one history row and keep row = height-1.
WrapAtBottomScrollsOnce ==
    [][ /\ (state = "ground" /\ unit' >= 32 /\ col = width /\ row = height - 1)
              => /\ ScrolledOneRow([BlankRow(width) EXCEPT ![0] = Character(unit', attr)])
                 /\ row' = height - 1 /\ col' = 1
        /\ (LineFeedAtBottom \/ IndexAtBottom)
              => /\ ScrolledOneRow(BlankRow(width))
                 /\ Len(history') = Len(history) + 1
                 /\ row' = height - 1 /\ col' = col ]_vars

\* z written after a full screen of at least two rows: the row of a's is the
\* only history row, the row of b's is the top row and z starts the bottom
\* row.
WrappedAtBottom ==
    /\ unit = 122 /\ state = "ground" /\ height >= 2
    /\ row = height - 1 /\ col = 1
    /\ Len(history) = 1 /\ history[1] = [j \in 0..(width - 1) |-> Character(97, {})]
    /\ screen[0] = [j \in 0..(width - 1) |-> Character(98, {})]
    /\ screen[height - 1] = [BlankRow(width) EXCEPT ![0] = Character(122, {})]

---------------------------------------------------------------------------
(* History.                                                                *)

\* C31: history is append-only: the history present before an input unit is
\* a prefix of the history after it, so the rows already in history keep
\* their characters and attributes and are never removed.
HistoryIsAppendOnly ==
    [][ /\ Len(history') >= Len(history)
        /\ SubSeq(history', 1, Len(history)) = history ]_vars

\* A line feed on a one-line screen that shows z, after the row of a's went
\* to the history: the row of a's is still the first history row.
HistoryGrewTwice ==
    /\ unit = LF_ /\ state = "ground" /\ height = 1
    /\ Len(history) = 2
    /\ history[1] = [j \in 0..(width - 1) |-> Character(97, {})]
    /\ history[2] = [BlankRow(width) EXCEPT ![0] = Character(122, {})]

\* The screen rows moved down by k, the top k rows empty, the rows pushed
\* past the bottom gone, the cursor and everything else as before.
ScrolledDown(k) ==
    /\ \A i \in k..(height - 1) : screen'[i] = screen[i - k]
    /\ \A i \in 0..(k - 1) : EmptyRow(i)
    /\ CursorUnmoved
    /\ history' = history /\ attr' = attr /\ tabstops' = tabstops

\* ESC M arrives.
DispatchesRI == state = "escape" /\ collected = <<>> /\ unit' = 77

\* C32: downward scrolling never records history: RI at row 0 moves the
\* screen rows down by one and SD by min(n, height), both empty the vacated
\* top rows, discard the rows pushed past the bottom and leave the cursor
\* and the history unchanged; RI at row > 0 only decrements row.
DownwardScrollKeepsHistory ==
    [][ /\ (DispatchesRI /\ row = 0) => (raised' = "none" /\ ScrolledDown(1))
        /\ (DispatchesRI /\ row > 0)
              => /\ raised' = "none" /\ row' = row - 1 /\ col' = col
                 /\ screen' = screen /\ history' = history
                 /\ attr' = attr /\ tabstops' = tabstops
        /\ DispatchesNumeric(84)
              => /\ raised' = "none"
                 /\ ScrolledDown(Min(Arg(collected, 1), height)) ]_vars

\* A row of a's written on the top row, moved to the second row by RI and
\* to the third by SD; nothing reached the history and the cursor stayed
\* at the pending-wrap position of the top row.
ScrolledDownTwice ==
    /\ unit = 84 /\ state = "ground" /\ collected = <<84>> /\ height >= 3
    /\ row = 0 /\ col = width /\ history = <<>>
    /\ screen[0] = BlankRow(width) /\ screen[1] = BlankRow(width)
    /\ screen[2] = [j \in 0..(width - 1) |-> Character(97, {})]

---------------------------------------------------------------------------
(* Tab stops at the pending-wrap position.                                 *)

\* ESC H arrives, or CSI g with no parameter.
DispatchesTabStop ==
    \/ state = "escape" /\ collected = <<>> /\ unit' = 72
    \/ state = "control_sequence" /\ collected = <<>> /\ unit' = 103

\* The sequence succeeds and changes at most the tab stop of the cursor
\* column.
TabStopStep ==
    /\ raised' = "none"
    /\ \A j \in 0..(width - 1) : j # col => tabstops'[j] = tabstops[j]

\* C33: HTS and TBC with parameter 0 succeed at every cursor position,
\* including the pending-wrap position col = width, and change only the tab
\* stop of a column inside [0, width); the tab-stop array always has exactly
\* width entries.
TabStopsSetAtEveryPosition ==
    [][ /\ DOMAIN tabstops' = 0..(width - 1)
        /\ DispatchesTabStop => TabStopStep ]_vars

\* The same, for cursor columns inside the screen.
TabStopsSetInsideScreen ==
    [][ /\ DOMAIN tabstops' = 0..(width - 1)
        /\ (DispatchesTabStop /\ col < width) => TabStopStep ]_vars

---------------------------------------------------------------------------
(* REP.  In a repeat session input is the transcript of the bytes handed   *)
(* to parse_single before the step.                                        *)

\* The last printable character of the transcript s that was output: a byte
\* from 32 up met outside a sequence, a sequence being ESC, then either one
\* byte or '[' and the bytes up to the first one from 64 up.  0 when there is
\* none.
RECURSIVE LastOutput(_, _, _, _)
LastOutput(s, i, mode, last) ==
    IF i > Len(s) THEN last
    ELSE IF mode = "ground"
    THEN IF s[i] = ESC_ THEN LastOutput(s, i + 1, "escape", last)
         ELSE LastOutput(s, i + 1, "ground", IF s[i] >= 32 THEN s[i] ELSE last)
    ELSE IF mode = "escape"
    THEN LastOutput(s, i + 1, IF s[i] = 91 THEN "control_sequence" ELSE "ground", last)
    ELSE LastOutput(s, i + 1, IF s[i] >= 64 THEN "ground" ELSE "control_sequence", last)

\* The step wrote n copies of c from the cursor, with the current attributes
\* and normal wrapping, and changed nothing else.
Repeated(c, n) ==
    /\ raised' = "none"
    /\ \E t \in {OutputTimes(Term, c, n)} :
          /\ row' = t.row /\ col' = t.col /\ screen' = t.screen
          /\ history' = t.history
    /\ attr' = attr /\ tabstops' = tabstops

\* C34: REP (CSI n b) outputs n copies of the most recently output printable
\* character, with the current attributes and normal wrapping, whenever a
\* printable character has been output since the start of the session, also
\* when another sequence lies between that character and the REP; it outputs
\* nothing when no printable character has been output.
RepeatsLastPrintable ==
    [][ DispatchesNumeric(98)
          => IF LastOutput(input, 1, "ground", 0) = 0
             THEN raised' = "none" /\ FrameUnchanged
             ELSE Repeated(LastOutput(input, 1, "ground", 0), Arg(collected, 1)) ]_vars

\* What REP repeats is the unit handed to parse_ground just before the ESC
\* of the REP: when that unit is printable it is the last character output
\* and REP repeats it; otherwise REP outputs nothing.
RepeatsPrecedingUnit ==
    [][ DispatchesNumeric(98)
          => IF previous >= 32
             THEN /\ previous = LastOutput(input, 1, "ground", 0)
                  /\ Repeated(previous, Arg(collected, 1))
             ELSE raised' = "none" /\ FrameUnchanged ]_vars

---------------------------------------------------------------------------
(* Control strings leave the terminal alone.                               *)

\* C35: while the parser is in osc, sos, pm or apc state, no byte (printable,
\* C0 control, or the byte following an ESC) changes the cursor, a screen
\* cell, the attributes, the tab stops or the history; the byte that follows
\* an ESC inside a control string is always consumed, ending the string, and
\* is never handed to the ground parser.
ControlStringsChangeNothing ==
    [][ (state \in {"osc", "sos", "pm", "apc"})
          => /\ raised' = "none"
             /\ FrameUnchanged
             /\ previous' = previous /\ current' = current
             /\ (EscapePending => state' = "ground") ]_vars

\* ESC ] LF ESC x on a fresh terminal: the string is over, the screen is
\* empty and the cursor is at the origin; neither the line feed nor the x
\* had an effect.
StringSwallowedItsBytes ==
    /\ unit = 120 /\ state = "ground" /\ prev_state = "osc"
    /\ collected = <<LF_>> /\ current = ESC_
    /\ row = 0 /\ col = 0 /\ history = <<>>
    /\ \A i \in 0..(height - 1) : screen[i] = BlankRow(width)

=============================================================================
